---- MODULE Spec2Model ----
(***************************************************************************)
(* A model of the django-auth-service authentication app:                  *)
(*   - the sliding-window rate limiter (decorators.rate_limit and          *)
(*     middleware.RateLimitMiddleware) over the shared Django cache,       *)
(*   - the password-reset token store (services.PasswordResetService),     *)
(*   - registration, login, logout and the JWT token pair                  *)
(*     (views.py, services.TokenService).                                  *)
(* Time is in whole seconds.  The cache gives every key an absolute        *)
(* expiry and treats a key as absent from that instant on (passive         *)
(* expiry on read, as django.core.cache does); nothing sweeps it.          *)
(***************************************************************************)
EXTENDS Integers, Sequences, FiniteSets, TLC

(***************************************************************************)
(* Bounds of the model.                                                    *)
(***************************************************************************)
MaxTime == 600
MaxRequests == 6
ResetMaxTime == 601
LifetimeMaxTime == 1200
MaxTokens == 1
MaxPairs == 2
MaxUserTokens == 2

(***************************************************************************)
(* Program constants.                                                      *)
(***************************************************************************)
LOGIN_MAX_REQUESTS == 5
LOGIN_TIME_WINDOW == 300
REGISTER_MAX_REQUESTS == 3
REGISTER_TIME_WINDOW == 600
FORGOT_MAX_REQUESTS == 3
FORGOT_TIME_WINDOW == 600
MIDDLEWARE_RETRY_AFTER == 60
TOKEN_EXPIRY_SECONDS == 600
ACCESS_TOKEN_LIFETIME == 3600
REFRESH_TOKEN_LIFETIME == 604800

VARIABLES
    now,        \* timezone.now().timestamp() / the cache's clock, in seconds
    cache,      \* django.core.cache: key -> [value, expires]
    resp,       \* the response to the request handled last
    admitted,   \* history: per rate-limit key, the admission times still inside its window
    wasFull,    \* history: per rate-limit key, whether it has reached its limit since it last admitted below it
    nreq,       \* number of requests handled so far
    users,      \* the User table: id -> [email, password, is_active]
    work,       \* per worker, the reset_password call it is executing and its locals
    issued,     \* history: reset token -> [email, at], for every token handed out
    successes,  \* history: reset token -> number of reset_password calls that returned True
    lastReset,  \* history: user id -> the new password of the last reset-password request
                \* answered 200 for that user, when requests are handled one at a time
    pairs,      \* every token pair handed out, in order of issuance
    blacklist,  \* the BlacklistedToken rows, each joined with its OutstandingToken
    revoked     \* history: the jti of every refresh token a logout was answered 200 for

rlhist == <<admitted, wasFull, nreq>>

resetvars == <<users, work, issued, successes, lastReset>>

authvars == <<pairs, blacklist, revoked>>

vars == <<now, cache, resp, rlhist, resetvars, authvars>>

(***************************************************************************)
(* django.core.cache                                                       *)
(***************************************************************************)
cache_get(key, default) ==
    IF key \in DOMAIN cache /\ now < cache[key].expires
    THEN cache[key].value
    ELSE default

cache_set(key, value, timeout) ==
    [k \in (DOMAIN cache) \cup {key} |->
        IF k = key THEN [value |-> value, expires |-> now + timeout] ELSE cache[k]]

cache_delete(key) ==
    [k \in (DOMAIN cache) \ {key} |-> cache[k]]

(***************************************************************************)
(* Requests seen by the rate limiter                                       *)
(***************************************************************************)
Clients == {"10.0.0.1", "10.0.0.2"}

\* views decorated with @rate_limit, with the decorator's arguments
DecoratedViews == {"register_user", "login_user", "request_password_reset"}

max_requests(view_func) ==
    CASE view_func = "register_user" -> REGISTER_MAX_REQUESTS
      [] view_func = "login_user" -> LOGIN_MAX_REQUESTS
      [] view_func = "request_password_reset" -> FORGOT_MAX_REQUESTS

time_window(view_func) ==
    CASE view_func = "register_user" -> REGISTER_TIME_WINDOW
      [] view_func = "login_user" -> LOGIN_TIME_WINDOW
      [] view_func = "request_password_reset" -> FORGOT_TIME_WINDOW

\* request paths, as sequences of path segments
LOGIN_PATH == <<"api", "v1", "auth", "login">>
REGISTER_PATH == <<"api", "v1", "auth", "register">>
FORGOT_PATH == <<"api", "v1", "auth", "forgot-password">>
RESET_PATH == <<"api", "v1", "auth", "reset-password">>
PROFILE_PATH == <<"api", "v1", "auth", "profile">>

\* a table with no entry for the reset-password path
rate_limits_without_reset == <<
    [path |-> LOGIN_PATH, limit |-> 5, window |-> 300],
    [path |-> REGISTER_PATH, limit |-> 3, window |-> 600],
    [path |-> FORGOT_PATH, limit |-> 3, window |-> 600] >>

\* RateLimitMiddleware.is_rate_limited: the rate_limits table, in dict order
rate_limits == <<
    [path |-> LOGIN_PATH, limit |-> 5, window |-> 300],
    [path |-> REGISTER_PATH, limit |-> 3, window |-> 600],
    [path |-> FORGOT_PATH, limit |-> 3, window |-> 600],
    [path |-> RESET_PATH, limit |-> 5, window |-> 300] >>

\* str.startswith
startswith(s, prefix) ==
    /\ Len(prefix) <= Len(s)
    /\ SubSeq(s, 1, Len(prefix)) = prefix

(***************************************************************************)
(* The endpoint policy the rate limiter is meant to enforce, and the       *)
(* history the properties are stated over.                                 *)
(***************************************************************************)
Endpoints == {"login", "register", "forgot-password", "reset-password"}

PolicyLimit(endpoint) == IF endpoint \in {"login", "reset-password"} THEN 5 ELSE 3

PolicyWindow(endpoint) == IF endpoint \in {"login", "reset-password"} THEN 300 ELSE 600

ViewEndpoint(view_func) ==
    CASE view_func = "register_user" -> "register"
      [] view_func = "login_user" -> "login"
      [] view_func = "request_password_reset" -> "forgot-password"

PathEndpoint(path) ==
    CASE path = LOGIN_PATH -> "login"
      [] path = REGISTER_PATH -> "register"
      [] path = FORGOT_PATH -> "forgot-password"
      [] path = RESET_PATH -> "reset-password"

\* the rate-limit counters of the two layers: [layer, client, endpoint]
Counters == [layer : {"decorator", "middleware"}, client : Clients, endpoint : Endpoints]

StillInWindow(times, t, window) == SelectSeq(times, LAMBDA x : t - x < window)

\* the history after a request to counter c at the current time
AdmittedAfter(c, was_admitted) ==
    [admitted EXCEPT ![c] =
        IF was_admitted
        THEN Append(StillInWindow(@, now, PolicyWindow(c.endpoint)), now)
        ELSE StillInWindow(@, now, PolicyWindow(c.endpoint))]

WasFullAfter(c, was_admitted) ==
    [wasFull EXCEPT ![c] =
        Len(AdmittedAfter(c, was_admitted)[c]) >= PolicyLimit(c.endpoint)]

\* what a response records about the request it answers
Answer(c, status, retry_after, invoked) ==
    [layer |-> c.layer, client |-> c.client, endpoint |-> c.endpoint,
     status |-> status, retry_after |-> retry_after, invoked |-> invoked,
     in_window |-> Len(StillInWindow(admitted[c], now, PolicyWindow(c.endpoint))),
     prev_full |-> wasFull[c]]

NoResponse ==
    [layer |-> "none", client |-> "", endpoint |-> "", status |-> 0, retry_after |-> 0,
     invoked |-> FALSE, in_window |-> 0, prev_full |-> FALSE]

(***************************************************************************)
(* decorators.rate_limit                                                   *)
(***************************************************************************)
\* a list comprehension that keeps every request
prune_nothing(requests, current_time, window) == requests

\* the list comprehension that removes the requests outside the time window
prune(requests, current_time, window) ==
    SelectSeq(requests, LAMBDA req_time : current_time - req_time < window)

\* a check that lets one request too many through
limit_exceeded_strict(requests, limit) == Len(requests) > limit

\* "Check if limit exceeded"
limit_exceeded(requests, limit) == Len(requests) >= limit

\* a key that does not name the view
decorator_cache_key_without_view(view_func, client_ip) == <<"rate_limit", client_ip>>

decorator_cache_key(view_func, client_ip) == <<"rate_limit", view_func, client_ip>>

decorator_retry_after(view_func) == time_window(view_func)

\* a counter stored for twice its window
decorator_timeout_long(view_func) == 2 * time_window(view_func)

\* cache.set(..., timeout=time_window)
decorator_timeout(view_func) == time_window(view_func)

\* current_requests of rate_limit.wrapper: the stored timestamps still inside the window
wrapper_requests(view_func, client_ip) ==
    prune(cache_get(decorator_cache_key(view_func, client_ip), <<>>), now,
          time_window(view_func))

\* the wrapper answers 429 without calling the view
wrapper_rejects(view_func, client_ip) ==
    limit_exceeded(wrapper_requests(view_func, client_ip), max_requests(view_func))

\* a wrapper that stores the request it is about to pass to the view and nothing else
wrapper_records_forgetting(view_func, client_ip) ==
    cache_set(decorator_cache_key(view_func, client_ip), <<now>>,
              decorator_timeout(view_func))

\* the cache after the wrapper recorded the request it is about to pass to the view
wrapper_records(view_func, client_ip) ==
    cache_set(decorator_cache_key(view_func, client_ip),
              Append(wrapper_requests(view_func, client_ip), now),
              decorator_timeout(view_func))

\* a wrapper that writes the pruned list back, with a fresh timeout, when it rejects
wrapper_storing_rejections(view_func, client_ip) ==
    LET c == [layer |-> "decorator", client |-> client_ip,
              endpoint |-> ViewEndpoint(view_func)]
    IN  /\ nreq < MaxRequests
        /\ nreq' = nreq + 1
        /\ IF wrapper_rejects(view_func, client_ip)
           THEN /\ resp' = Answer(c, 429, decorator_retry_after(view_func), FALSE)
                /\ admitted' = AdmittedAfter(c, FALSE)
                /\ wasFull' = WasFullAfter(c, FALSE)
                /\ cache' = cache_set(decorator_cache_key(view_func, client_ip),
                                      wrapper_requests(view_func, client_ip),
                                      decorator_timeout(view_func))
           ELSE /\ cache' = wrapper_records(view_func, client_ip)
                /\ resp' = Answer(c, 200, 0, TRUE)
                /\ admitted' = AdmittedAfter(c, TRUE)
                /\ wasFull' = WasFullAfter(c, TRUE)
        /\ UNCHANGED <<now, resetvars, authvars>>

\* rate_limit(...).wrapper with the wrapped view left abstract: it is invoked or not
wrapper(view_func, client_ip) ==
    LET c == [layer |-> "decorator", client |-> client_ip,
              endpoint |-> ViewEndpoint(view_func)]
    IN  /\ nreq < MaxRequests
        /\ nreq' = nreq + 1
        /\ IF wrapper_rejects(view_func, client_ip)
           THEN /\ resp' = Answer(c, 429, decorator_retry_after(view_func), FALSE)
                /\ admitted' = AdmittedAfter(c, FALSE)
                /\ wasFull' = WasFullAfter(c, FALSE)
                /\ UNCHANGED cache
           ELSE /\ cache' = wrapper_records(view_func, client_ip)
                /\ resp' = Answer(c, 200, 0, TRUE)
                /\ admitted' = AdmittedAfter(c, TRUE)
                /\ wasFull' = WasFullAfter(c, TRUE)
        /\ UNCHANGED <<now, resetvars, authvars>>

(***************************************************************************)
(* middleware.RateLimitMiddleware                                          *)
(***************************************************************************)
middleware_cache_key(client_ip, endpoint) == <<"rate_limit", client_ip, endpoint>>

\* a middleware that keeps a request that is exactly `window` seconds old
check_rate_limit_prune_inclusive(requests, current_time, window) ==
    SelectSeq(requests, LAMBDA req_time : current_time - req_time <= window)

\* check_rate_limit, "Remove old requests outside the window": its own list
\* comprehension over the list it read
check_rate_limit_prune(requests, current_time, window) ==
    SelectSeq(requests, LAMBDA req_time : current_time - req_time < window)

\* check_rate_limit, "Check if limit is exceeded"
check_rate_limit_exceeded(requests, limit) == Len(requests) >= limit

\* the list check_rate_limit holds after pruning, for an entry of rate_limits
check_rate_limit_requests(client_ip, endpoint, window) ==
    check_rate_limit_prune(cache_get(middleware_cache_key(client_ip, endpoint), <<>>),
                           now, window)

check_rate_limit(client_ip, endpoint, limit, window) ==
    check_rate_limit_exceeded(check_rate_limit_requests(client_ip, endpoint, window), limit)

\* indices of the entries of rate_limits whose path the request path starts with
matching(request_path) ==
    {i \in 1..Len(rate_limits) : startswith(request_path, rate_limits[i].path)}

first_match(request_path) ==
    CHOOSE i \in matching(request_path) : \A j \in matching(request_path) : i <= j

is_rate_limited(client_ip, request_path) ==
    IF matching(request_path) = {}
    THEN FALSE
    ELSE LET config == rate_limits[first_match(request_path)]
         IN  check_rate_limit(client_ip, config.path, config.limit, config.window)

middleware_retry_after == MIDDLEWARE_RETRY_AFTER

\* RateLimitMiddleware.__call__ with get_response left abstract
middleware_call(client_ip, request_path) ==
    /\ nreq < MaxRequests
    /\ nreq' = nreq + 1
    /\ UNCHANGED <<now, resetvars, authvars>>
    /\ IF matching(request_path) = {}
       THEN /\ resp' = [NoResponse EXCEPT !.layer = "middleware", !.client = client_ip,
                                          !.status = 200, !.invoked = TRUE]
            /\ UNCHANGED <<cache, admitted, wasFull>>
       ELSE LET config == rate_limits[first_match(request_path)]
                c == [layer |-> "middleware", client |-> client_ip,
                      endpoint |-> PathEndpoint(config.path)]
            IN  IF is_rate_limited(client_ip, request_path)
                THEN /\ resp' = Answer(c, 429, middleware_retry_after, FALSE)
                     /\ admitted' = AdmittedAfter(c, FALSE)
                     /\ wasFull' = WasFullAfter(c, FALSE)
                     /\ UNCHANGED cache
                ELSE /\ cache' = cache_set(
                            middleware_cache_key(client_ip, config.path),
                            Append(check_rate_limit_requests(client_ip, config.path,
                                                             config.window), now),
                            config.window)
                     /\ resp' = Answer(c, 200, 0, TRUE)
                     /\ admitted' = AdmittedAfter(c, TRUE)
                     /\ wasFull' = WasFullAfter(c, TRUE)

(***************************************************************************)
(* The rate limiter handling one request at a time.                        *)
(***************************************************************************)
RLTickSteps == {300}

Tick(d) ==
    /\ now + d <= MaxTime
    /\ now' = now + d
    /\ admitted' = [c \in DOMAIN admitted |->
                        StillInWindow(admitted[c], now + d, PolicyWindow(c.endpoint))]
    /\ UNCHANGED <<cache, resp, wasFull, nreq, resetvars, authvars>>

\* the requests of this specification: one client, every decorated view, and the
\* middleware on a path a decorator also limits, on the path only it limits, and on
\* a path it does not limit
RLClients == {"10.0.0.1"}

RLPaths == {LOGIN_PATH, RESET_PATH, PROFILE_PATH}

InitRL ==
    /\ now = 0
    /\ cache = <<>>
    /\ resp = NoResponse
    /\ admitted = [c \in Counters |-> <<>>]
    /\ wasFull = [c \in Counters |-> FALSE]
    /\ nreq = 0
    /\ users = <<>>
    /\ work = <<>>
    /\ issued = <<>>
    /\ successes = <<>>
    /\ lastReset = <<>>
    /\ pairs = <<>>
    /\ blacklist = {}
    /\ revoked = {}

NextRL ==
    \/ \E d \in RLTickSteps : Tick(d)
    \/ \E v \in DecoratedViews, ip \in RLClients : wrapper(v, ip)
    \/ \E ip \in RLClients, p \in RLPaths : middleware_call(ip, p)

SpecRL == InitRL /\ [][NextRL]_vars

(***************************************************************************)
(* Properties of the rate limiter                                          *)
(***************************************************************************)
EndpointView(endpoint) ==
    CASE endpoint = "register" -> "register_user"
      [] endpoint = "login" -> "login_user"
      [] endpoint = "forgot-password" -> "request_password_reset"
      [] OTHER -> "reset_password"

EndpointPath(endpoint) ==
    CASE endpoint = "login" -> LOGIN_PATH
      [] endpoint = "register" -> REGISTER_PATH
      [] endpoint = "forgot-password" -> FORGOT_PATH
      [] OTHER -> RESET_PATH

\* the cache key under which a layer keeps counter c
CounterKey(c) ==
    IF c.layer = "decorator"
    THEN decorator_cache_key(EndpointView(c.endpoint), c.client)
    ELSE middleware_cache_key(c.client, EndpointPath(c.endpoint))

Limited(r) == r.layer \in {"decorator", "middleware"} /\ r.endpoint \in Endpoints

\* C1: requests being handled one at a time, a request that arrives when exactly
\* `limit` requests of its client to its endpoint were admitted within the last
\* `window` seconds is rejected with HTTP 429 (by the decorator and by the middleware).
C1_RejectedAfterLimit ==
    (Limited(resp) /\ resp.in_window = PolicyLimit(resp.endpoint)) => resp.status = 429

C1_Witness ==
    /\ resp.layer = "decorator" /\ resp.endpoint = "login"
    /\ resp.in_window = PolicyLimit("login")
    /\ resp.status = 429

\* C2: every 429 carries retry_after equal to the window of the endpoint that
\* rejected the request (300 for login and reset-password, 600 for register and
\* forgot-password), whichever layer produced it.
C2_RetryAfterIsWindow ==
    (Limited(resp) /\ resp.status = 429) => resp.retry_after = PolicyWindow(resp.endpoint)

\* C3: when a counter that had reached its limit has admitted nothing for `window`
\* seconds (in particular when its client made no request at all), its key has expired
\* in the cache, no timestamp survives pruning, and the next request is admitted.
C3_DecaysAfterWindow ==
    /\ \A c \in Counters :
          (wasFull[c] /\ admitted[c] = <<>>) =>
              /\ cache_get(CounterKey(c), <<>>) = <<>>
              /\ CounterKey(c) \in DOMAIN cache => now >= cache[CounterKey(c)].expires
    /\ (Limited(resp) /\ resp.prev_full /\ resp.in_window = 0) => resp.status = 200

C3_Witness ==
    /\ Limited(resp) /\ resp.prev_full /\ resp.in_window = 0 /\ resp.status = 200
    /\ resp.endpoint = "register"

(***************************************************************************)
(* models.User and UserManager                                             *)
(***************************************************************************)
\* Python's None where an email, a dict of token data or a token string is expected
NoEmail == <<>>

NoTokenData == [email |-> NoEmail, user_id |-> 0, created_at |-> 0]

NoToken == -1

\* str.lower on the strings that occur in the model
str_lower(s) ==
    CASE s = "Alice" -> "alice"
      [] s = "Admin" -> "admin"
      [] s = "Example.COM" -> "example.com"
      [] OTHER -> s

\* an email address is <<local part, domain>>
\* BaseUserManager.normalize_email lowercases the domain part only
normalize_email(email) == <<email[1], str_lower(email[2])>>

\* a lookup that selects every row, whatever its email
users_whatever_email(email) == DOMAIN users

\* the ids of the rows User.objects.filter(email=email) selects (an exact match)
users_with_email(email) == {i \in DOMAIN users : users[i].email = email}

\* the unique constraint on User.email refuses the INSERT: IntegrityError
IntegrityError(email) == users_with_email(normalize_email(email)) # {}

\* User.last_login of a user who never logged in (NULL)
NEVER == -1

\* UserManager.create_user: the User table with the new row; its id is the new length
create_user(email, full_name, password) ==
    Append(users, [email |-> normalize_email(email), full_name |-> full_name,
                   password |-> password, is_active |-> TRUE, last_login |-> NEVER])

(***************************************************************************)
(* services.PasswordResetService and views.reset_password                  *)
(***************************************************************************)
reset_cache_key(token) == <<"password_reset_token", token>>

\* a token kept a minute longer than TOKEN_EXPIRY_SECONDS
reset_token_timeout_long == TOKEN_EXPIRY_SECONDS + 60

\* cache.set(..., timeout=cls.TOKEN_EXPIRY_SECONDS)
reset_token_timeout == TOKEN_EXPIRY_SECONDS

\* generate_reset_token: 32 random characters, taken to be a token never handed out before
generate_reset_token == Len(issued) + 1

\* a token string that generate_reset_token never returned
INVALID_TOKEN == 0

\* the response of create_password_reset_token: the token returned (NoToken for None or
\* for no return at all), and whether send_reset_email raised
IssueAnswer(result, raised) ==
    [op |-> "create_password_reset_token", result |-> result, raised |-> raised]

Workers == {"w1", "w2"}

\* no model instance
NoInstance == [email |-> NoEmail, full_name |-> <<>>, password |-> "", is_active |-> FALSE,
               last_login |-> NEVER]

\* a worker with no request in hand; with one, its locals: the token and password of
\* the request, the token_data read from the cache or built for it, the user read from
\* the database (its primary key and the instance with every column as it was read),
\* and for an issuance whether send_reset_email is going to raise
Idle == [pc |-> "idle", token |-> INVALID_TOKEN, new_password |-> "",
         token_data |-> NoTokenData, late |-> FALSE, user_id |-> 0, user |-> NoInstance,
         send_raises |-> FALSE]

\* the workers that are between the SELECT and the cache.set of an issuance
Issuing == {w \in DOMAIN work : work[w].pc \in {"issue_got_user", "issue_dated"}}

\* user = User.objects.get(email=email), and User.DoesNotExist: return None.
\* send_raises: send_reset_email is going to raise; max_tokens: the tokens the model
\* lets be issued
create_password_reset_token(w, email, send_raises, max_tokens) ==
    /\ work[w].pc = "idle"
    /\ Len(issued) + Cardinality(Issuing) < max_tokens
    /\ IF users_with_email(email) = {}
       THEN \* User.DoesNotExist
            /\ resp' = IssueAnswer(NoToken, FALSE)
            /\ UNCHANGED work
       ELSE LET user_id == CHOOSE i \in users_with_email(email) : TRUE
            IN  /\ work' = [work EXCEPT ![w] =
                               [Idle EXCEPT !.pc = "issue_got_user",
                                            !.user_id = user_id,
                                            !.user = users[user_id],
                                            !.token_data = [email |-> email,
                                                            user_id |-> user_id,
                                                            created_at |-> 0],
                                            !.send_raises = send_raises]]
                /\ UNCHANGED resp
    /\ UNCHANGED <<now, cache, rlhist, users, issued, successes, lastReset, authvars>>

\* 'created_at': str(timezone.now()): the clock is read while the dict is built
create_password_reset_token_now(w) ==
    /\ work[w].pc = "issue_got_user"
    /\ work' = [work EXCEPT ![w].pc = "issue_dated", ![w].token_data.created_at = now]
    /\ UNCHANGED <<now, cache, resp, rlhist, users, issued, successes, lastReset, authvars>>

\* cache.set(cache_key, {...}, timeout=cls.TOKEN_EXPIRY_SECONDS): the entry expires
\* TOKEN_EXPIRY_SECONDS after this call. The token generate_reset_token returned is
\* named by its place among the stored tokens
create_password_reset_token_set(w) ==
    LET token == generate_reset_token
    IN  /\ work[w].pc = "issue_dated"
        /\ cache' = cache_set(reset_cache_key(token), work[w].token_data,
                              reset_token_timeout)
        /\ issued' = Append(issued, [email |-> work[w].token_data.email,
                                     user_id |-> work[w].token_data.user_id,
                                     created_at |-> work[w].token_data.created_at,
                                     at |-> now, sent |-> FALSE, raised |-> FALSE])
        /\ successes' = Append(successes, 0)
        /\ work' = [work EXCEPT ![w].pc = "issue_stored", ![w].token = token]
        /\ UNCHANGED <<now, resp, rlhist, users, lastReset, authvars>>

\* an issuance that takes the token back when the email could not be sent
create_password_reset_token_send_discarding(w) ==
    /\ work[w].pc = "issue_stored"
    /\ IF work[w].send_raises
       THEN /\ resp' = IssueAnswer(NoToken, TRUE)
            /\ issued' = [issued EXCEPT ![work[w].token].raised = TRUE]
            /\ cache' = cache_delete(reset_cache_key(work[w].token))
       ELSE /\ resp' = IssueAnswer(work[w].token, FALSE)
            /\ issued' = [issued EXCEPT ![work[w].token].sent = TRUE]
            /\ UNCHANGED cache
    /\ work' = [work EXCEPT ![w] = Idle]
    /\ UNCHANGED <<now, rlhist, users, successes, lastReset, authvars>>

\* cls.send_reset_email(email, token) and return token; when send_reset_email raises,
\* the exception leaves the method and the caller gets no token
create_password_reset_token_send(w) ==
    /\ work[w].pc = "issue_stored"
    /\ IF work[w].send_raises
       THEN /\ resp' = IssueAnswer(NoToken, TRUE)
            /\ issued' = [issued EXCEPT ![work[w].token].raised = TRUE]
       ELSE /\ resp' = IssueAnswer(work[w].token, FALSE)
            /\ issued' = [issued EXCEPT ![work[w].token].sent = TRUE]
    /\ work' = [work EXCEPT ![w] = Idle]
    /\ UNCHANGED <<now, cache, rlhist, users, successes, lastReset, authvars>>

validate_reset_token(token) ==
    LET token_data == cache_get(reset_cache_key(token), NoTokenData)
    IN  IF token_data # NoTokenData THEN token_data.email ELSE NoEmail

\* a resolve that takes the token out of the cache
validate_reset_token_consuming(token) ==
    /\ resp' = [op |-> "validate_reset_token", token |-> token,
                result |-> validate_reset_token(token)]
    /\ cache' = cache_delete(reset_cache_key(token))
    /\ UNCHANGED <<now, rlhist, resetvars, authvars>>

\* PasswordResetService.validate_reset_token called, its result kept as the response
validate_reset_token_call(token) ==
    /\ resp' = [op |-> "validate_reset_token", token |-> token,
                result |-> validate_reset_token(token)]
    /\ UNCHANGED <<now, cache, rlhist, resetvars, authvars>>

\* django's validate_password, as configured: the passwords it refuses
WeakPasswords == {"123"}

\* PasswordResetConfirmSerializer.validate: the errors, {} when the data is valid
reset_confirm_errors(new_password, new_password_confirm) ==
    IF new_password # new_password_confirm
    THEN {"Passwords do not match."}
    ELSE IF new_password \in WeakPasswords
         THEN {"This password is too short."}
         ELSE {}

SuccessCount(token) == IF token \in DOMAIN successes THEN successes[token] ELSE 0

\* the response of views.reset_password, with what the properties need to know of the
\* request: whether its passwords passed validation, whether it arrived after a reset
\* had succeeded with its token, and whether it saved a password
ResetResponse(token, status, error, valid, late, changed) ==
    [op |-> "reset_password", token |-> token, status |-> status, error |-> error,
     valid |-> valid, late |-> late, changed |-> changed]

\* a view that takes the token out of the cache before it validates the passwords
reset_password_begin_consuming_first(w, token, new_password, new_password_confirm) ==
    LET late == SuccessCount(token) > 0
        token_data == cache_get(reset_cache_key(token), NoTokenData)
    IN  /\ work[w].pc = "idle"
        /\ IF reset_confirm_errors(new_password, new_password_confirm) # {}
           THEN /\ resp' = ResetResponse(token, 400, "Invalid data provided", FALSE, late, FALSE)
                /\ cache' = cache_delete(reset_cache_key(token))
                /\ UNCHANGED work
           ELSE IF token_data = NoTokenData
                THEN /\ resp' = ResetResponse(token, 400, "Invalid or expired token",
                                              TRUE, late, FALSE)
                     /\ UNCHANGED <<work, cache>>
                ELSE /\ work' = [work EXCEPT ![w] =
                                    [Idle EXCEPT !.pc = "got_token", !.token = token,
                                                 !.new_password = new_password,
                                                 !.token_data = token_data,
                                                 !.late = late]]
                     /\ UNCHANGED <<resp, cache>>
        /\ UNCHANGED <<now, rlhist, users, issued, successes, lastReset, authvars>>

\* views.reset_password up to the cache.get of PasswordResetService.reset_password
reset_password_begin(w, token, new_password, new_password_confirm) ==
    LET late == SuccessCount(token) > 0
        token_data == cache_get(reset_cache_key(token), NoTokenData)
    IN  /\ work[w].pc = "idle"
        /\ IF reset_confirm_errors(new_password, new_password_confirm) # {}
           THEN /\ resp' = ResetResponse(token, 400, "Invalid data provided", FALSE, late, FALSE)
                /\ UNCHANGED work
           ELSE IF token_data = NoTokenData
                THEN /\ resp' = ResetResponse(token, 400, "Invalid or expired token",
                                              TRUE, late, FALSE)
                     /\ UNCHANGED work
                ELSE /\ work' = [work EXCEPT ![w] =
                                    [Idle EXCEPT !.pc = "got_token", !.token = token,
                                                 !.new_password = new_password,
                                                 !.token_data = token_data,
                                                 !.late = late]]
                     /\ UNCHANGED resp
        /\ UNCHANGED <<now, cache, rlhist, users, issued, successes, lastReset, authvars>>

\* a reset that takes the first user, whoever the token names
reset_password_get_first_user(w) ==
    LET ids == users_with_email(work[w].token_data.email)
    IN  /\ work[w].pc = "got_token"
        /\ IF ids = {}
           THEN /\ resp' = ResetResponse(work[w].token, 400, "Invalid or expired token",
                                         TRUE, work[w].late, FALSE)
                /\ work' = [work EXCEPT ![w] = Idle]
           ELSE /\ work' = [work EXCEPT ![w].pc = "got_user", ![w].user_id = 1,
                                        ![w].user = users[1]]
                /\ UNCHANGED resp
        /\ UNCHANGED <<now, cache, rlhist, users, issued, successes, lastReset, authvars>>

\* user = User.objects.get(email=token_data['email']), and User.DoesNotExist
reset_password_get(w) ==
    LET ids == users_with_email(work[w].token_data.email)
    IN  /\ work[w].pc = "got_token"
        /\ IF ids = {}
           THEN \* User.DoesNotExist: return False
                /\ resp' = ResetResponse(work[w].token, 400, "Invalid or expired token",
                                         TRUE, work[w].late, FALSE)
                /\ work' = [work EXCEPT ![w] = Idle]
           ELSE LET user_id == CHOOSE i \in ids : TRUE
                IN  /\ work' = [work EXCEPT ![w].pc = "got_user", ![w].user_id = user_id,
                                             ![w].user = users[user_id]]
                    /\ UNCHANGED resp
        /\ UNCHANGED <<now, cache, rlhist, users, issued, successes, lastReset, authvars>>

\* Model.save() of an instance: an UPDATE of every column of the row with its primary key
save(user_id, user) == [users EXCEPT ![user_id] = user]

\* user.set_password(new_password); user.save()
reset_password_save(w) ==
    /\ work[w].pc = "got_user"
    /\ users' = save(work[w].user_id, [work[w].user EXCEPT !.password = work[w].new_password])
    /\ work' = [work EXCEPT ![w].pc = "saved"]
    /\ UNCHANGED <<now, cache, resp, rlhist, issued, successes, lastReset, authvars>>

\* a reset that leaves the token in the cache
reset_password_cache_kept(token) == cache

\* a reset that deletes every token bound to the email of the token it used
reset_password_cache_clearing_user(token) ==
    LET email == cache[reset_cache_key(token)].value.email
    IN  [k \in {j \in DOMAIN cache :
                    ~(j[1] = "password_reset_token" /\ cache[j].value.email = email)}
            |-> cache[k]]

\* cache.delete(cache_key)
reset_password_cache_after(token) == cache_delete(reset_cache_key(token))

\* the history after a reset-password request was answered 200 for the user
LastResetAfter(user_id, new_password) ==
    [i \in (DOMAIN lastReset) \cup {user_id} |->
        IF i = user_id THEN new_password ELSE lastReset[i]]

\* cache.delete(cache_key); return True; the view answers 200
reset_password_finish(w) ==
    /\ work[w].pc = "saved"
    /\ cache' = reset_password_cache_after(work[w].token)
    /\ successes' = [successes EXCEPT ![work[w].token] = @ + 1]
    /\ lastReset' = LastResetAfter(work[w].user_id, work[w].new_password)
    /\ resp' = ResetResponse(work[w].token, 200, "", TRUE, work[w].late, TRUE)
    /\ work' = [work EXCEPT ![w] = Idle]
    /\ UNCHANGED <<now, rlhist, users, issued, authvars>>

(***************************************************************************)
(* The reset-token store under concurrent reset-password requests.         *)
(***************************************************************************)
\* the clock moves to just before or just after the expiry of a token set at the current time
ResetTickSteps == {599, 601}

Elapse(d) ==
    /\ now + d <= ResetMaxTime
    /\ now' = now + d
    /\ UNCHANGED <<cache, resp, rlhist, resetvars, authvars>>

\* the users the create_test_data command creates (the first two of its three); a full
\* name is the sequence of the code points of its characters
TestUsers == <<
    [email |-> <<"john.doe", "example.com">>,
     full_name |-> <<74, 111, 104, 110, 32, 68, 111, 101>>,                \* "John Doe"
     password |-> "testpassword123", is_active |-> TRUE, last_login |-> NEVER],
    [email |-> <<"jane.smith", "example.com">>,
     full_name |-> <<74, 97, 110, 101, 32, 83, 109, 105, 116, 104>>,       \* "Jane Smith"
     password |-> "testpassword123", is_active |-> TRUE, last_login |-> NEVER] >>

\* the emails reset tokens are asked for: the two users' and one nobody has
ResetEmails == {<<"john.doe", "example.com">>, <<"jane.smith", "example.com">>,
                <<"nonexistent", "example.com">>}

\* the request bodies: two valid passwords, a mismatch and a weak password
ResetBodies == {<<"newpassword456", "newpassword456">>, <<"Str0ngPassw!", "Str0ngPassw!">>,
                <<"newpassword456", "Str0ngPassw!">>, <<"123", "123">>}

PresentedTokens == {INVALID_TOKEN} \cup DOMAIN issued

\* the worker that issues the tokens
IssueWorkers == {"w2"}

InitReset ==
    /\ now = 0
    /\ cache = <<>>
    /\ resp = [op |-> "none"]
    /\ admitted = [c \in Counters |-> <<>>]
    /\ wasFull = [c \in Counters |-> FALSE]
    /\ nreq = 0
    /\ users = TestUsers
    /\ work = [w \in Workers |-> Idle]
    /\ issued = <<>>
    /\ successes = <<>>
    /\ lastReset = <<>>
    /\ pairs = <<>>
    /\ blacklist = {}
    /\ revoked = {}

NextReset ==
    \/ \E d \in ResetTickSteps : Elapse(d)
    \/ \E w \in IssueWorkers, e \in ResetEmails :
            create_password_reset_token(w, e, FALSE, MaxTokens)
    \/ \E w \in IssueWorkers : create_password_reset_token_now(w)
    \/ \E w \in IssueWorkers : create_password_reset_token_set(w)
    \/ \E w \in IssueWorkers : create_password_reset_token_send(w)
    \/ \E t \in PresentedTokens : validate_reset_token_call(t)
    \/ \E w \in Workers, t \in PresentedTokens, b \in ResetBodies :
            reset_password_begin(w, t, b[1], b[2])
    \/ \E w \in Workers : reset_password_get(w)
    \/ \E w \in Workers : reset_password_save(w)
    \/ \E w \in Workers : reset_password_finish(w)

SpecReset == InitReset /\ [][NextReset]_vars

(***************************************************************************)
(* Properties of the reset-token store                                     *)
(***************************************************************************)
\* C4: at most one reset-password operation succeeds with any one issued token,
\* also when requests carrying the same token overlap.
C4_AtMostOneSuccess ==
    \A t \in DOMAIN successes : successes[t] <= 1

\* C5: a reset-password request that arrives after a reset has succeeded with its token
\* fails and leaves every password as it was: it never gets past the token check, and
\* the service answers it with "Invalid or expired token" (a request whose passwords do
\* not pass the serializer is refused before the service is called).
C5_UsedTokenRejected ==
    /\ \A w \in Workers : work[w].pc # "idle" => ~work[w].late
    /\ (resp.op = "reset_password" /\ resp.late) =>
            /\ resp.status = 400
            /\ ~resp.changed
            /\ resp.valid => resp.error = "Invalid or expired token"

C5_Witness ==
    /\ resp.op = "reset_password"
    /\ resp.late
    /\ resp.valid
    /\ resp.status = 400
    /\ resp.error = "Invalid or expired token"
    /\ now < issued[resp.token].at + TOKEN_EXPIRY_SECONDS

\* a reset-password request with valid passwords would find the token and its user
ResetCanSucceed(token) ==
    /\ cache_get(reset_cache_key(token), NoTokenData) # NoTokenData
    /\ users_with_email(cache_get(reset_cache_key(token), NoTokenData).email) # {}

(***************************************************************************)
(* rest_framework_simplejwt: the token pair and the token blacklist, as    *)
(* services.TokenService and views.logout_user use them                    *)
(***************************************************************************)
\* request.user of a request that carries no acceptable access token
NoUser == 0

\* a JWT is the record of its claims; signed tells a token this service signed from a
\* string that does not verify against its key
NoJWT == [token_type |-> "none", jti |-> 0, user_id |-> NoUser, exp |-> 0, signed |-> FALSE]

GarbageJWT == [token_type |-> "refresh", jti |-> 0, user_id |-> NoUser, exp |-> 0,
               signed |-> FALSE]

\* the empty string given as a token
EmptyJWT == [token_type |-> "empty", jti |-> 0, user_id |-> NoUser, exp |-> 0,
             signed |-> FALSE]

\* uuid4().hex: an identifier no token got before
new_jti(n) == 2 * Len(pairs) + n

\* RefreshToken.for_user(user)
for_user(user_id) ==
    [token_type |-> "refresh", jti |-> new_jti(1), user_id |-> user_id,
     exp |-> now + REFRESH_TOKEN_LIFETIME, signed |-> TRUE]

\* an access token that does not carry the refresh token's user_id claim
access_token_without_subject(refresh) ==
    [token_type |-> "access", jti |-> new_jti(2), user_id |-> NoUser,
     exp |-> now + ACCESS_TOKEN_LIFETIME, signed |-> TRUE]

\* RefreshToken.access_token: the refresh token's claims under a new jti, type and expiry
access_token(refresh) ==
    [token_type |-> "access", jti |-> new_jti(2), user_id |-> refresh.user_id,
     exp |-> now + ACCESS_TOKEN_LIFETIME, signed |-> TRUE]

\* TokenService.get_tokens_for_user
get_tokens_for_user(user_id) ==
    LET refresh == for_user(user_id)
    IN  [refresh |-> refresh, access |-> access_token(refresh),
         access_token_lifetime |-> ACCESS_TOKEN_LIFETIME,
         refresh_token_lifetime |-> REFRESH_TOKEN_LIFETIME]

NoTokens == [refresh |-> NoJWT, access |-> NoJWT,
             access_token_lifetime |-> 0, refresh_token_lifetime |-> 0]

\* a blacklist that is looked up by the token's user instead of its jti
check_blacklist_by_user(token) == \E row \in blacklist : row.user_id = token.user_id

\* BlacklistMixin.check_blacklist: a BlacklistedToken row exists for the token's jti
check_blacklist(token) == \E row \in blacklist : row.jti = token.jti

\* a verification that accepts an expired token
TokenError_ignoring_expiry(token) ==
    \/ ~token.signed
    \/ token.token_type # "refresh"
    \/ check_blacklist(token)

\* a verification that does not look at the blacklist
TokenError_ignoring_blacklist(token) ==
    \/ ~token.signed
    \/ now >= token.exp
    \/ token.token_type # "refresh"

\* RefreshToken(token) raises TokenError: bad signature, expired, wrong type or blacklisted
TokenError(token) ==
    \/ ~token.signed
    \/ now >= token.exp
    \/ token.token_type # "refresh"
    \/ check_blacklist(token)

\* token.blacklist(): the BlacklistedToken row, with the jti, user and expires_at of the
\* OutstandingToken it points to; the row has no expiry of its own
blacklist_row(token) ==
    [jti |-> token.jti, user_id |-> token.user_id, expires_at |-> token.exp]

\* an authentication that also turns away the access tokens of a user who has a
\* blacklisted refresh token
jwt_authenticate_checks_blacklist(token) ==
    IF /\ token.signed
       /\ token.token_type = "access"
       /\ now < token.exp
       /\ token.user_id \in DOMAIN users
       /\ users[token.user_id].is_active
       /\ ~check_blacklist_by_user(token)
    THEN token.user_id
    ELSE NoUser

\* JWTAuthentication.authenticate behind IsAuthenticated: the user of a signed, unexpired
\* access token whose user exists and is active; the blacklist is not consulted
jwt_authenticate(token) ==
    IF /\ token.signed
       /\ token.token_type = "access"
       /\ now < token.exp
       /\ token.user_id \in DOMAIN users
       /\ users[token.user_id].is_active
    THEN token.user_id
    ELSE NoUser

(***************************************************************************)
(* serializers.py and views.py: register, login, profile, logout           *)
(***************************************************************************)
\* value.lower() on an email address
lower_email(email) == <<str_lower(email[1]), str_lower(email[2])>>

\* a string whose characters matter is the sequence of its code points: "Alice" is
\* <<65, 108, 105, 99, 101>>
\* the characters for which str.isspace() is true, which str.strip() removes: U+0009 to
\* U+000D, U+001C to U+001F, the space, U+0085, U+00A0 and the Unicode spaces
Whitespace ==
    (9..13) \cup (28..32) \cup {133, 160, 5760} \cup (8192..8202)
        \cup {8232, 8233, 8239, 8287, 12288}

RECURSIVE lstrip(_)
lstrip(s) == IF s # <<>> /\ Head(s) \in Whitespace THEN lstrip(Tail(s)) ELSE s

RECURSIVE rstrip(_)
rstrip(s) ==
    IF s # <<>> /\ s[Len(s)] \in Whitespace THEN rstrip(SubSeq(s, 1, Len(s) - 1)) ELSE s

\* str.strip
strip(s) == rstrip(lstrip(s))

\* User.full_name = models.CharField(max_length=255)
FULL_NAME_MAX_LENGTH == 255

\* the full_name field of UserRegistrationSerializer: the CharField trims the value and
\* refuses a blank or an overlong one, then validate_full_name refuses a short one
full_name_errors(full_name) ==
    IF strip(full_name) = <<>>
    THEN {"This field may not be blank."}
    ELSE IF Len(strip(full_name)) > FULL_NAME_MAX_LENGTH
         THEN {"Ensure this field has no more than 255 characters."}
         ELSE IF Len(strip(strip(full_name))) < 2
              THEN {"Full name must be at least 2 characters long."}
              ELSE {}

\* validated_data['full_name']: what validate_full_name returns
validated_full_name(full_name) == strip(strip(full_name))

\* the UniqueValidator the ModelSerializer puts on the email field (unique=True): an
\* exact lookup of the value, with the model field's message
unique_errors(email) ==
    IF users_with_email(email) # {}
    THEN {"User with this email address already exists."}
    ELSE {}

\* UserRegistrationSerializer.validate_email: the same lookup, made after the validator
validate_email_errors(email) ==
    IF users_with_email(email) # {}
    THEN {"A user with this email already exists."}
    ELSE {}

\* the email field: its validators, and validate_email when they found nothing
email_errors(email) ==
    IF unique_errors(email) # {} THEN unique_errors(email) ELSE validate_email_errors(email)

\* UserRegistrationSerializer.is_valid once the lookups of the email field have given
\* its errors: the errors, {} when the data is valid; the errors of the fields are
\* reported together, validate() runs when there are none
is_valid_errors(errors_of_email, full_name, password, password_confirm) ==
    IF errors_of_email \cup full_name_errors(full_name) # {}
    THEN errors_of_email \cup full_name_errors(full_name)
    ELSE IF password # password_confirm
         THEN {"Passwords do not match."}
         ELSE IF password \in WeakPasswords
              THEN {"This password is too short."}
              ELSE {}

\* UserRegistrationSerializer.is_valid with no other request between its lookups
registration_errors(email, full_name, password, password_confirm) ==
    is_valid_errors(email_errors(email), full_name, password, password_confirm)

\* django.contrib.auth.authenticate with ModelBackend: the user with exactly this email,
\* if the password checks and the user is active
authenticate(email, password) ==
    LET ids == {i \in users_with_email(email) :
                    users[i].password = password /\ users[i].is_active}
    IN  IF ids = {} THEN NoUser ELSE CHOOSE i \in ids : TRUE

\* a validation that tells an email nobody has from a wrong password
login_errors_naming_unknown_email(email, password) ==
    IF users_with_email(email) = {}
    THEN {"No user found with this email address."}
    ELSE IF authenticate(email, password) = NoUser
         THEN {"Invalid email or password."}
         ELSE {}

\* UserLoginSerializer.validate: the errors, {} when the data is valid
login_errors(email, password) ==
    IF authenticate(email, password) = NoUser
    THEN {"Invalid email or password."}
    ELSE IF ~users[authenticate(email, password)].is_active
         THEN {"User account is disabled."}
         ELSE {}

\* the response of a view and its time; email is the email of the register request that
\* was answered 201, and the user's email in the other responses that carry a profile
AuthResponse(op, status, message, user, tokens, email) ==
    [op |-> op, status |-> status, message |-> message, user |-> user,
     tokens |-> tokens, email |-> email, at |-> now]

\* the 429 of rate_limit.wrapper
TooManyRequests(view_func) ==
    [op |-> view_func, status |-> 429, message |-> "Rate limit exceeded", user |-> NoUser,
     tokens |-> NoTokens, email |-> NoEmail, at |-> now,
     retry_after |-> decorator_retry_after(view_func)]

\* views.register_user under @rate_limit(max_requests=3, time_window=600)
register_user(client_ip, email, full_name, password, password_confirm) ==
    /\ IF wrapper_rejects("register_user", client_ip)
       THEN /\ resp' = TooManyRequests("register_user")
            /\ UNCHANGED <<cache, users, pairs>>
       ELSE /\ cache' = wrapper_records("register_user", client_ip)
            /\ IF registration_errors(email, full_name, password, password_confirm) # {}
               THEN /\ resp' = AuthResponse("register_user", 400, "Registration failed",
                                            NoUser, NoTokens, NoEmail)
                    /\ UNCHANGED <<users, pairs>>
               ELSE IF IntegrityError(lower_email(email))
                    THEN \* serializer.save() raises; the view does not catch it
                         /\ resp' = AuthResponse("register_user", 500, "IntegrityError",
                                                 NoUser, NoTokens, NoEmail)
                         /\ UNCHANGED <<users, pairs>>
                    ELSE LET user == Len(users) + 1
                             tokens == get_tokens_for_user(user)
                         IN  /\ Len(pairs) < MaxPairs
                             /\ users' = create_user(lower_email(email),
                                                      validated_full_name(full_name),
                                                      password)
                             /\ pairs' = Append(pairs, tokens)
                             /\ resp' = AuthResponse("register_user", 201,
                                                     "User registered successfully",
                                                     user, tokens, email)
    /\ UNCHANGED <<now, rlhist, work, issued, successes, lastReset, blacklist, revoked>>

\* views.login_user under @rate_limit(max_requests=5, time_window=300)
login_user(client_ip, email, password) ==
    /\ IF wrapper_rejects("login_user", client_ip)
       THEN /\ resp' = TooManyRequests("login_user")
            /\ UNCHANGED <<cache, users, pairs>>
       ELSE /\ cache' = wrapper_records("login_user", client_ip)
            /\ IF login_errors(email, password) # {}
               THEN /\ resp' = AuthResponse("login_user", 400, "Login failed",
                                            NoUser, NoTokens, NoEmail)
                    /\ UNCHANGED <<users, pairs>>
               ELSE LET user == authenticate(email, password)
                        tokens == get_tokens_for_user(user)
                    IN  /\ Len(pairs) < MaxPairs
                        /\ pairs' = Append(pairs, tokens)
                        /\ users' = save(user, [users[user] EXCEPT !.last_login = now])
                        /\ resp' = AuthResponse("login_user", 200, "Login successful",
                                                user, tokens, users[user].email)
    /\ UNCHANGED <<now, rlhist, work, issued, successes, lastReset, blacklist, revoked>>

\* the detail of the 401: of IsAuthenticated for a request without an Authorization
\* header, of JWTAuthentication for a token it does not accept
unauthorized_detail(token) ==
    IF token = NoJWT
    THEN "Authentication credentials were not provided."
    ELSE IF ~token.signed \/ token.token_type # "access" \/ now >= token.exp
         THEN "Given token not valid for any token type"
         ELSE IF token.user_id \notin DOMAIN users
              THEN "User not found"
              ELSE "User is inactive"

\* the 401 of a view behind IsAuthenticated, for the access token presented
Unauthorized(op, token) ==
    AuthResponse(op, 401, unauthorized_detail(token), NoUser, NoTokens, NoEmail)

\* views.get_user_profile behind IsAuthenticated
get_user_profile(access) ==
    /\ resp' = IF jwt_authenticate(access) = NoUser
               THEN Unauthorized("get_user_profile", access)
               ELSE AuthResponse("get_user_profile", 200,
                                 "User profile retrieved successfully",
                                 jwt_authenticate(access), NoTokens,
                                 users[jwt_authenticate(access)].email)
    /\ UNCHANGED <<now, cache, rlhist, resetvars, authvars>>

\* a worker with no logout request in hand
\*   refresh_token: the refresh_token of the request's body
\*   unverifiable, was_revoked: for the properties, what was true of the token when
\*   RefreshToken(refresh_token) checked it
LogoutIdle == [pc |-> "idle", refresh_token |-> NoJWT, unverifiable |-> FALSE,
               was_revoked |-> FALSE]

\* the response of views.logout_user with the refresh_token of the request's body and,
\* for the properties, whether the token was unverifiable and whether it was on the
\* blacklist when the view checked it
LogoutResponse(status, message, refresh_token, unverifiable, was_revoked) ==
    [op |-> "logout_user", status |-> status, message |-> message,
     refresh_token |-> refresh_token, unverifiable |-> unverifiable,
     was_revoked |-> was_revoked, at |-> now]

\* a test that takes everything but None for a token
truthy_unless_none(refresh_token) == refresh_token # NoJWT

\* `if refresh_token:` of logout_user: neither None nor the empty string
truthy(refresh_token) == refresh_token \notin {NoJWT, EmptyJWT}

\* the token is there but is malformed, not signed by this service, or expired
Unverifiable(token) ==
    /\ token \notin {NoJWT, EmptyJWT}
    /\ \/ ~token.signed
       \/ token.token_type # "refresh"
       \/ now >= token.exp

\* POST /api/v1/auth/logout/ arrives: IsAuthenticated; refresh_token is NoJWT when the
\* body has none
logout_authenticate(w, access, refresh_token) ==
    /\ work[w].pc = "idle"
    /\ IF jwt_authenticate(access) = NoUser
       THEN /\ resp' = Unauthorized("logout_user", access)
            /\ UNCHANGED work
       ELSE /\ work' = [work EXCEPT ![w] = [LogoutIdle EXCEPT
                                                !.pc = "authenticated",
                                                !.refresh_token = refresh_token]]
            /\ UNCHANGED resp
    /\ UNCHANGED <<now, cache, rlhist, users, issued, successes, lastReset, authvars>>

\* views.logout_user up to token = RefreshToken(refresh_token): the 200 of a request
\* with no token, the 400 of a token that raises TokenError
logout_verify(w) ==
    LET refresh_token == work[w].refresh_token
    IN  /\ work[w].pc = "authenticated"
        /\ IF ~truthy(refresh_token)
           THEN /\ resp' = LogoutResponse(200, "Logout successful", refresh_token,
                                          FALSE, FALSE)
                /\ work' = [work EXCEPT ![w] = LogoutIdle]
           ELSE IF TokenError(refresh_token)
                THEN /\ resp' = LogoutResponse(400, "Logout failed", refresh_token,
                                               Unverifiable(refresh_token),
                                               check_blacklist(refresh_token))
                     /\ work' = [work EXCEPT ![w] = LogoutIdle]
                ELSE /\ work' = [work EXCEPT
                                    ![w].pc = "verified",
                                    ![w].unverifiable = Unverifiable(refresh_token),
                                    ![w].was_revoked = check_blacklist(refresh_token)]
                     /\ UNCHANGED resp
        /\ UNCHANGED <<now, cache, rlhist, users, issued, successes, lastReset, authvars>>

\* views.logout_user from token.blacklist() to the 200 response: get_or_create of the
\* OutstandingToken and of the BlacklistedToken, which gets the row when it is there
logout_blacklist(w) ==
    LET refresh_token == work[w].refresh_token
    IN  /\ work[w].pc = "verified"
        /\ blacklist' = blacklist \cup {blacklist_row(refresh_token)}
        /\ revoked' = revoked \cup {refresh_token.jti}
        /\ resp' = LogoutResponse(200, "Logout successful", refresh_token,
                                  work[w].unverifiable, work[w].was_revoked)
        /\ work' = [work EXCEPT ![w] = LogoutIdle]
        /\ UNCHANGED <<now, cache, rlhist, users, issued, successes, lastReset, pairs>>

(***************************************************************************)
(* Registration, login and the profile over time.                          *)
(***************************************************************************)
\* the instants the clock visits after 0: when the refresh tokens issued at 0 expire
\* (the access tokens issued at 0 and every rate-limit window have expired by then)
AuthTimes == {REFRESH_TOKEN_LIFETIME}

Advance(t) ==
    /\ t > now
    /\ now' = t
    /\ UNCHANGED <<cache, resp, rlhist, resetvars, authvars>>

AuthClients == {"10.0.0.1"}

\* the emails of the requests: two users', and one of them as another spelling
AuthEmails == {<<"alice", "example.com">>, <<"Alice", "example.com">>,
               <<"bob", "example.com">>}

\* the full names of the register requests: "Alice A", "A", " " and "\rA"
RegisterNames == {<<65, 108, 105, 99, 101, 32, 65>>, <<65>>, <<32>>, <<13, 65>>}

\* register bodies: a valid pair of passwords and a weak password given twice
RegisterBodies == {<<"Str0ngPassw!", "Str0ngPassw!">>, <<"123", "123">>}

LoginEmails == {<<"alice", "example.com">>, <<"bob", "example.com">>}

LoginPasswords == {"Str0ngPassw!", "wrongpassword"}

\* the tokens a client can present: those handed out, none at all (NoJWT), the empty
\* string, and a string that is no token
AccessTokens == {pairs[k].access : k \in DOMAIN pairs}

RefreshTokens == {pairs[k].refresh : k \in DOMAIN pairs}

PresentedAccess == AccessTokens \cup {NoJWT, GarbageJWT}

PresentedRefresh == RefreshTokens \cup {NoJWT, EmptyJWT, GarbageJWT}

InitAuth ==
    /\ now = 0
    /\ cache = <<>>
    /\ resp = [op |-> "none"]
    /\ admitted = [c \in Counters |-> <<>>]
    /\ wasFull = [c \in Counters |-> FALSE]
    /\ nreq = 0
    /\ users = <<>>
    /\ work = [w \in Workers |-> Idle]
    /\ issued = <<>>
    /\ successes = <<>>
    /\ lastReset = <<>>
    /\ pairs = <<>>
    /\ blacklist = {}
    /\ revoked = {}

NextAuth ==
    \/ \E t \in AuthTimes : Advance(t)
    \/ \E ip \in AuthClients, e \in AuthEmails, n \in RegisterNames, b \in RegisterBodies :
            register_user(ip, e, n, b[1], b[2])
    \/ \E ip \in AuthClients, e \in LoginEmails, p \in LoginPasswords :
            login_user(ip, e, p)
    \/ \E a \in PresentedAccess : get_user_profile(a)

SpecAuth == InitAuth /\ [][NextAuth]_vars

(***************************************************************************)
(* Properties of the token pair and the blacklist                          *)
(***************************************************************************)
\* C7: the refresh tokens reported as revoked are exactly those a logout revoked: the
\* token a logout was answered 200 for is on the blacklist, and no other issued refresh
\* token is, whether it belongs to the same user or to another.
C7_RevokedExactly ==
    \A k \in DOMAIN pairs :
        check_blacklist(pairs[k].refresh) <=> pairs[k].refresh.jti \in revoked

C7_Witness ==
    \E i, j \in DOMAIN pairs :
        /\ i # j
        /\ pairs[i].refresh.user_id = pairs[j].refresh.user_id
        /\ pairs[i].refresh.jti \in revoked
        /\ check_blacklist(pairs[i].refresh)
        /\ ~check_blacklist(pairs[j].refresh)
        /\ resp.op = "logout_user" /\ resp.status = 200 /\ resp.at = now

\* C8: no revocation record is left once the refresh token it was made for has expired.
C8_RecordGoneAfterExpiry ==
    \A row \in blacklist : now < row.expires_at

\* a step of a logout request: it moves a worker, or answers 401
LogoutRequestStep ==
    \/ work' # work
    \/ resp'.op = "logout_user" /\ now' = now /\ pairs' = pairs

\* C9: a logout leaves every access token that was accepted before it accepted after
\* it, at each of its steps
C9_LogoutKeepsAccessTokens ==
    [][LogoutRequestStep =>
            \A k \in DOMAIN pairs :
                jwt_authenticate(pairs[k].access) # NoUser =>
                    (jwt_authenticate(pairs[k].access) # NoUser)']_vars

\* a protected endpoint has just accepted an access token of a user whose unexpired
\* access tokens all came with a refresh token that is revoked by now
C9_Witness ==
    /\ resp.op = "get_user_profile"
    /\ resp.status = 200
    /\ resp.at = now
    /\ \A k \in DOMAIN pairs :
            (pairs[k].access.user_id = resp.user /\ now < pairs[k].access.exp) =>
                pairs[k].refresh.jti \in revoked

\* C10: the tokens of a 201 from register are issued for the user that request created:
\* subject = the id of the user with the request's email in lower case, and the access
\* token is accepted at the time of the response.
C10_RegisterTokensForNewUser ==
    (resp.op = "register_user" /\ resp.status = 201) =>
        /\ resp.user \in DOMAIN users
        /\ users[resp.user].email = lower_email(resp.email)
        /\ resp.tokens.access.user_id = resp.user
        /\ resp.tokens.refresh.user_id = resp.user
        /\ now = resp.at => jwt_authenticate(resp.tokens.access) = resp.user

C10_Witness ==
    /\ resp.op = "register_user"
    /\ resp.status = 201
    /\ resp.user = 2
    /\ now = resp.at
    /\ jwt_authenticate(resp.tokens.access) = 2

\* a pipeline without RateLimitMiddleware
RATE_LIMIT_MIDDLEWARE_absent == FALSE

(***************************************************************************)
(* The request pipeline: RateLimitMiddleware in front of the views         *)
(***************************************************************************)
\* settings.MIDDLEWARE lists authentication.middleware.RateLimitMiddleware, so every
\* request passes RateLimitMiddleware.__call__ before its view
RATE_LIMIT_MIDDLEWARE == TRUE

\* RateLimitMiddleware.__call__ answers 429 without calling get_response
gate_rejects(client_ip, request_path) ==
    RATE_LIMIT_MIDDLEWARE /\ is_rate_limited(client_ip, request_path)

\* the cache c the view leaves, with the entry check_rate_limit wrote before the view ran
\* (the middleware's keys are not keys a view or a decorator reads or writes)
gate_records(c, client_ip, request_path) ==
    IF ~RATE_LIMIT_MIDDLEWARE \/ matching(request_path) = {}
    THEN c
    ELSE LET config == rate_limits[first_match(request_path)]
             key == middleware_cache_key(client_ip, config.path)
         IN  [k \in (DOMAIN c) \cup {key} |->
                IF k = key
                THEN [value |-> Append(check_rate_limit_requests(client_ip, config.path,
                                                                 config.window), now),
                      expires |-> now + config.window]
                ELSE c[k]]

\* the history key of the requests of a client to an endpoint that passed the middleware
Gate(client_ip, endpoint) ==
    [layer |-> "middleware", client |-> client_ip, endpoint |-> endpoint]

\* how many requests of the client to the endpoint were admitted within the window
InWindow(client_ip, endpoint) ==
    Len(StillInWindow(admitted[Gate(client_ip, endpoint)], now, PolicyWindow(endpoint)))

\* a response of the pipeline, with what the properties need to know of the request:
\* its email and password, and how many requests were admitted in the window before it
LoginAnswer(client_ip, email, password, status, errors, retry_after, user, tokens) ==
    [op |-> "login_user", email |-> email, password |-> password, status |-> status,
     errors |-> errors, retry_after |-> retry_after, user |-> user, tokens |-> tokens,
     in_window |-> InWindow(client_ip, "login"), at |-> now]

\* POST /api/v1/auth/login/: RateLimitMiddleware, rate_limit.wrapper, views.login_user
http_login(client_ip, email, password) ==
    /\ IF gate_rejects(client_ip, LOGIN_PATH)
       THEN /\ resp' = LoginAnswer(client_ip, email, password, 429, {},
                                   middleware_retry_after, NoUser, NoTokens)
            /\ UNCHANGED <<cache, admitted, users, pairs>>
       ELSE IF wrapper_rejects("login_user", client_ip)
       THEN /\ resp' = LoginAnswer(client_ip, email, password, 429, {},
                                   decorator_retry_after("login_user"), NoUser, NoTokens)
            /\ cache' = gate_records(cache, client_ip, LOGIN_PATH)
            /\ admitted' = AdmittedAfter(Gate(client_ip, "login"), FALSE)
            /\ UNCHANGED <<users, pairs>>
       ELSE /\ cache' = gate_records(wrapper_records("login_user", client_ip),
                                     client_ip, LOGIN_PATH)
            /\ admitted' = AdmittedAfter(Gate(client_ip, "login"), TRUE)
            /\ IF login_errors(email, password) # {}
               THEN /\ resp' = LoginAnswer(client_ip, email, password, 400,
                                           login_errors(email, password), 0,
                                           NoUser, NoTokens)
                    /\ UNCHANGED <<users, pairs>>
               ELSE LET user == authenticate(email, password)
                        tokens == get_tokens_for_user(user)
                    IN  /\ Len(pairs) < MaxPairs
                        /\ pairs' = Append(pairs, tokens)
                        /\ users' = save(user, [users[user] EXCEPT !.last_login = now])
                        /\ resp' = LoginAnswer(client_ip, email, password, 200, {}, 0,
                                               user, tokens)
    /\ UNCHANGED <<now, wasFull, nreq, work, issued, successes, lastReset, blacklist, revoked>>

(***************************************************************************)
(* Logins over time, one request at a time.                                *)
(***************************************************************************)
\* the users in the database: one the create_test_data command created, one the
\* create_superuser_if_not_exists command created from SUPERUSER_EMAIL=Admin@example.com,
\* and one whose is_active flag was cleared in the admin
StoredUsers == <<
    [email |-> <<"john.doe", "example.com">>,
     full_name |-> <<74, 111, 104, 110, 32, 68, 111, 101>>,                \* "John Doe"
     password |-> "testpassword123", is_active |-> TRUE, last_login |-> NEVER],
    [email |-> <<"Admin", "example.com">>,
     full_name |-> <<65, 100, 109, 105, 110>>,                             \* "Admin"
     password |-> "testpassword123", is_active |-> TRUE, last_login |-> NEVER],
    [email |-> <<"jane.smith", "example.com">>,
     full_name |-> <<74, 97, 110, 101, 32, 83, 109, 105, 116, 104>>,       \* "Jane Smith"
     password |-> "testpassword123", is_active |-> FALSE, last_login |-> NEVER] >>

\* the emails of the login requests: the three users' and one nobody has
GateEmails == {<<"john.doe", "example.com">>, <<"Admin", "example.com">>,
               <<"jane.smith", "example.com">>, <<"nonexistent", "example.com">>}

GatePasswords == {"testpassword123", "wrongpassword"}

InitLogin ==
    /\ now = 0
    /\ cache = <<>>
    /\ resp = [op |-> "none"]
    /\ admitted = [c \in Counters |-> <<>>]
    /\ wasFull = [c \in Counters |-> FALSE]
    /\ nreq = 0
    /\ users = StoredUsers
    /\ work = [w \in Workers |-> Idle]
    /\ issued = <<>>
    /\ successes = <<>>
    /\ lastReset = <<>>
    /\ pairs = <<>>
    /\ blacklist = {}
    /\ revoked = {}

NextLogin ==
    \/ \E d \in RLTickSteps : Tick(d)
    \/ \E ip \in RLClients, e \in GateEmails, p \in GatePasswords : http_login(ip, e, p)

SpecLogin == InitLogin /\ [][NextLogin]_vars

(***************************************************************************)
(* Logout under overlapping requests: IsAuthenticated, the check of        *)
(* RefreshToken(refresh_token) and token.blacklist() of one request are    *)
(* separate steps, and the steps of other requests, and the clock, can     *)
(* fall between them.                                                      *)
(***************************************************************************)
\* the logins that hand out the token pairs: two users with their password
LogoutEmails == {<<"john.doe", "example.com">>, <<"Admin", "example.com">>}

LogoutPasswords == {"testpassword123"}

InitLogout ==
    /\ now = 0
    /\ cache = <<>>
    /\ resp = [op |-> "none"]
    /\ admitted = [c \in Counters |-> <<>>]
    /\ wasFull = [c \in Counters |-> FALSE]
    /\ nreq = 0
    /\ users = StoredUsers
    /\ work = [w \in Workers |-> LogoutIdle]
    /\ issued = <<>>
    /\ successes = <<>>
    /\ lastReset = <<>>
    /\ pairs = <<>>
    /\ blacklist = {}
    /\ revoked = {}

NextLogout ==
    \/ \E t \in AuthTimes : Advance(t)
    \/ \E ip \in AuthClients, e \in LogoutEmails, p \in LogoutPasswords :
            login_user(ip, e, p)
    \/ \E a \in PresentedAccess : get_user_profile(a)
    \/ \E w \in Workers, a \in PresentedAccess, r \in PresentedRefresh :
            logout_authenticate(w, a, r)
    \/ \E w \in Workers : logout_verify(w)
    \/ \E w \in Workers : logout_blacklist(w)

SpecLogout == InitLogout /\ [][NextLogout]_vars

(***************************************************************************)
(* Properties of login                                                     *)
(***************************************************************************)
\* C11: a login request that arrives when 5 login requests of its client were admitted
\* within the last 300 seconds is answered 429 with retry_after 300 and gets no token
\* pair, whatever its password.
C11_SixthLoginRejected ==
    (resp.op = "login_user" /\ resp.in_window = 5) =>
        /\ resp.status = 429
        /\ resp.retry_after = 300
        /\ resp.tokens = NoTokens

\* the login request answered last reached the view with an email nobody has (unknown),
\* or with the email of a user and another password than that user's (wrong)
UnknownEmail == resp.op = "login_user" /\ resp.status # 429 /\ users_with_email(resp.email) = {}

WrongPassword ==
    /\ resp.op = "login_user"
    /\ resp.status # 429
    /\ users_with_email(resp.email) # {}
    /\ \A i \in users_with_email(resp.email) : users[i].password # resp.password

\* C15: a login with an email nobody has and a login with a user's email and a wrong
\* password get the same answer: status 400, "Invalid email or password.", no user and
\* no tokens.
C15_SameErrorForUnknownAndWrong ==
    (UnknownEmail \/ WrongPassword) =>
        /\ resp.status = 400
        /\ resp.errors = {"Invalid email or password."}
        /\ resp.user = NoUser
        /\ resp.tokens = NoTokens

C15_Witness ==
    /\ UnknownEmail
    /\ resp.status = 400
    /\ resp.errors = {"Invalid email or password."}
    /\ resp.password = "testpassword123"

\* the login request answered last reached the view with the email and the password of a
\* user whose is_active flag is false
DisabledLogin ==
    /\ resp.op = "login_user"
    /\ resp.status # 429
    /\ \E i \in users_with_email(resp.email) :
            ~users[i].is_active /\ users[i].password = resp.password

\* C16: a login with the right password of an inactive user is answered with the
\* account-disabled error, and no token pair is ever issued for an inactive user.
C16_DisabledAccountError ==
    /\ DisabledLogin =>
            /\ resp.status = 400
            /\ resp.errors = {"User account is disabled."}
            /\ resp.tokens = NoTokens
    /\ \A k \in DOMAIN pairs : users[pairs[k].refresh.user_id].is_active

(***************************************************************************)
(* Password recovery through the pipeline: views.request_password_reset    *)
(* and views.reset_password, one request at a time                         *)
(***************************************************************************)
\* cache.set on a cache c that the same request has already written to
cache_put(c, key, value, timeout) ==
    [k \in (DOMAIN c) \cup {key} |->
        IF k = key THEN [value |-> value, expires |-> now + timeout] ELSE c[k]]

\* PasswordResetRequestSerializer.validate_email: the errors, {} when a user has the email
forgot_errors(email) ==
    IF users_with_email(email) = {}
    THEN {"No user found with this email address."}
    ELSE {}

ForgotAnswer(client_ip, email, status, errors, retry_after, token) ==
    [op |-> "request_password_reset", email |-> email, status |-> status,
     errors |-> errors, retry_after |-> retry_after, token |-> token,
     in_window |-> InWindow(client_ip, "forgot-password"), at |-> now]

\* POST /api/v1/auth/forgot-password/: RateLimitMiddleware, rate_limit.wrapper,
\* views.request_password_reset, PasswordResetService.create_password_reset_token
http_forgot(client_ip, email) ==
    /\ IF gate_rejects(client_ip, FORGOT_PATH)
       THEN /\ resp' = ForgotAnswer(client_ip, email, 429, {}, middleware_retry_after,
                                    NoToken)
            /\ UNCHANGED <<cache, admitted, issued, successes>>
       ELSE IF wrapper_rejects("request_password_reset", client_ip)
       THEN /\ resp' = ForgotAnswer(client_ip, email, 429, {},
                                    decorator_retry_after("request_password_reset"),
                                    NoToken)
            /\ cache' = gate_records(cache, client_ip, FORGOT_PATH)
            /\ admitted' = AdmittedAfter(Gate(client_ip, "forgot-password"), FALSE)
            /\ UNCHANGED <<issued, successes>>
       ELSE /\ admitted' = AdmittedAfter(Gate(client_ip, "forgot-password"), TRUE)
            /\ IF forgot_errors(email) # {}
               THEN /\ resp' = ForgotAnswer(client_ip, email, 400, forgot_errors(email),
                                            0, NoToken)
                    /\ cache' = gate_records(
                                    wrapper_records("request_password_reset", client_ip),
                                    client_ip, FORGOT_PATH)
                    /\ UNCHANGED <<issued, successes>>
               ELSE IF users_with_email(lower_email(email)) = {}
                    THEN \* create_password_reset_token: User.DoesNotExist, return None
                         /\ resp' = ForgotAnswer(client_ip, email, 400,
                                                 {"User not found"}, 0, NoToken)
                         /\ cache' = gate_records(
                                        wrapper_records("request_password_reset",
                                                        client_ip),
                                        client_ip, FORGOT_PATH)
                         /\ UNCHANGED <<issued, successes>>
                    ELSE LET user_id == CHOOSE i \in users_with_email(lower_email(email)) :
                                            TRUE
                             token == generate_reset_token
                         IN  /\ Len(issued) < MaxTokens
                             /\ cache' = gate_records(
                                    cache_put(wrapper_records("request_password_reset",
                                                              client_ip),
                                              reset_cache_key(token),
                                              [email |-> lower_email(email),
                                               user_id |-> user_id, created_at |-> now],
                                              reset_token_timeout),
                                    client_ip, FORGOT_PATH)
                             /\ issued' = Append(issued, [email |-> lower_email(email),
                                                          user_id |-> user_id, created_at |-> now,
                                                          at |-> now, sent |-> TRUE, raised |-> FALSE])
                             /\ successes' = Append(successes, 0)
                             /\ resp' = ForgotAnswer(client_ip, email, 200, {}, 0, token)
    /\ UNCHANGED <<now, wasFull, nreq, users, work, lastReset, authvars>>

\* user.set_password(new_password); user.save()
set_password(user_id, new_password) ==
    [users EXCEPT ![user_id].password = new_password]

\* reached: whether PasswordResetService.reset_password was called
ResetAnswer(client_ip, token, new_password, status, error, retry_after, reached) ==
    [op |-> "reset_password", token |-> token, new_password |-> new_password,
     status |-> status, error |-> error, retry_after |-> retry_after,
     reached |-> reached, in_window |-> InWindow(client_ip, "reset-password"),
     at |-> now]

\* POST /api/v1/auth/reset-password/: RateLimitMiddleware, views.reset_password,
\* PasswordResetService.reset_password, with no other request in between
http_reset(client_ip, token, new_password, new_password_confirm) ==
    LET token_data == cache_get(reset_cache_key(token), NoTokenData)
        ids == users_with_email(token_data.email)
    IN
    /\ IF gate_rejects(client_ip, RESET_PATH)
       THEN /\ resp' = ResetAnswer(client_ip, token, new_password, 429,
                                   "Rate limit exceeded", middleware_retry_after, FALSE)
            /\ UNCHANGED <<cache, admitted, users, successes, lastReset>>
       ELSE /\ admitted' = AdmittedAfter(Gate(client_ip, "reset-password"), TRUE)
            /\ IF reset_confirm_errors(new_password, new_password_confirm) # {}
               THEN /\ resp' = ResetAnswer(client_ip, token, new_password, 400,
                                           "Invalid data provided", 0, FALSE)
                    /\ cache' = gate_records(cache, client_ip, RESET_PATH)
                    /\ UNCHANGED <<users, successes, lastReset>>
               ELSE IF token_data = NoTokenData \/ ids = {}
                    THEN /\ resp' = ResetAnswer(client_ip, token, new_password, 400,
                                                "Invalid or expired token", 0, TRUE)
                         /\ cache' = gate_records(cache, client_ip, RESET_PATH)
                         /\ UNCHANGED <<users, successes, lastReset>>
                    ELSE LET user_id == CHOOSE i \in ids : TRUE
                         IN  /\ users' = set_password(user_id, new_password)
                             /\ cache' = gate_records(reset_password_cache_after(token),
                                                      client_ip, RESET_PATH)
                             /\ successes' = [successes EXCEPT ![token] = @ + 1]
                             /\ lastReset' = LastResetAfter(user_id, new_password)
                             /\ resp' = ResetAnswer(client_ip, token, new_password, 200,
                                                    "", 0, TRUE)
    /\ UNCHANGED <<now, wasFull, nreq, work, issued, authvars>>

\* the emails of the forgot-password requests: two users' as stored, and one nobody has
ForgotEmails == {<<"john.doe", "example.com">>, <<"Admin", "example.com">>,
                 <<"nonexistent", "example.com">>}

\* reset bodies: a new password given twice, and a mismatch
RecoverBodies == {<<"newpassword456", "newpassword456">>,
                  <<"newpassword456", "Str0ngPassw!">>}

\* the logins tried: john.doe with the password he had and with the new one
RecoverPasswords == {"testpassword123", "newpassword456"}

InitRecover ==
    /\ now = 0
    /\ cache = <<>>
    /\ resp = [op |-> "none"]
    /\ admitted = [c \in Counters |-> <<>>]
    /\ wasFull = [c \in Counters |-> FALSE]
    /\ nreq = 0
    /\ users = StoredUsers
    /\ work = [w \in Workers |-> Idle]
    /\ issued = <<>>
    /\ successes = <<>>
    /\ lastReset = <<>>
    /\ pairs = <<>>
    /\ blacklist = {}
    /\ revoked = {}

\* one step of time: to the instant the reset token and the 300-second windows have run out
RecoverTickSteps == {TOKEN_EXPIRY_SECONDS}

NextRecover ==
    \/ \E d \in RecoverTickSteps : Tick(d)
    \/ \E ip \in RLClients, e \in ForgotEmails : http_forgot(ip, e)
    \/ \E ip \in RLClients, t \in PresentedTokens, b \in RecoverBodies :
            http_reset(ip, t, b[1], b[2])

SpecRecover == InitRecover /\ [][NextRecover]_vars

\* C12: a reset-password request that finds five reset-password requests of its client
\* inside the last 300 seconds is answered 429 and
\* PasswordResetService.reset_password is not called for it
C12_SixthResetRejected ==
    (resp.op = "reset_password" /\ resp.in_window = 5)
        => /\ resp.status = 429
           /\ ~resp.reached

\* the sixth request carried a token that was, and still is, good for a reset
C12_Witness ==
    /\ resp.op = "reset_password"
    /\ resp.in_window = 5
    /\ resp.status = 429
    /\ resp.token \in DOMAIN issued
    /\ cache_get(reset_cache_key(resp.token), NoTokenData) # NoTokenData

\* the request named the email of a stored user, letter for letter, and was not
\* turned away by the rate limiter
ForgotForStoredEmail ==
    /\ resp.op = "request_password_reset"
    /\ resp.status # 429
    /\ \E i \in DOMAIN users : users[i].email = resp.email

\* C17: a forgot-password request carrying a user's stored email, in whatever letter
\* case it is stored, is answered 200 with a token that validate_reset_token resolves
\* to that stored email
C17_StoredEmailGetsToken ==
    ForgotForStoredEmail
        => /\ resp.status = 200
           /\ resp.token # NoToken
           /\ resp.at = now => validate_reset_token(resp.token) = resp.email

\* every token a client could present
AllTokens == 0..MaxTokens

\* C18: a forgot-password request for an email no user has is answered 400 when the
\* rate limiter lets it through, returns no token, and leaves every token resolving to
\* what it resolved to before
C18_UnknownEmailStoresNothing ==
    [][(/\ resp'.op = "request_password_reset"
        /\ now' = now
        /\ \A i \in DOMAIN users : users[i].email # resp'.email)
            => /\ resp'.status # 429 => resp'.status = 400
               /\ resp'.token = NoToken
               /\ \A t \in AllTokens :
                      validate_reset_token(t)' = validate_reset_token(t)]_vars

\* the request for the unknown email was refused while a token of a user was resolvable
C18_Witness ==
    /\ resp.op = "request_password_reset"
    /\ resp.status = 400
    /\ \A i \in DOMAIN users : users[i].email # resp.email
    /\ \E t \in DOMAIN issued : validate_reset_token(t) # NoEmail

(***************************************************************************)
(* Reset-password and login of one user, a login overlapping the reset:    *)
(* each cache and database operation of a request is a step, and the       *)
(* steps of the other request can fall between them.                       *)
(***************************************************************************)
\* a worker handling a login: the request, the list and the timestamp its rate limiter
\* read, the user authenticate returned (primary key and instance), and, for the
\* properties, the password of the last reset that had succeeded for that user when the
\* credentials were checked ("" when none had)
LoginIdle == [pc |-> "idle", client |-> "", email |-> NoEmail, password |-> "",
              requests |-> <<>>, current_time |-> 0, user_id |-> 0, user |-> NoInstance,
              reset |-> "", tokens |-> NoTokens]

\* the response of the login pipeline
LoginResult(email, password, status, errors, retry_after, user, tokens, reset) ==
    [op |-> "login_user", email |-> email, password |-> password, status |-> status,
     errors |-> errors, retry_after |-> retry_after, user |-> user, tokens |-> tokens,
     reset |-> reset, at |-> now]

\* POST /api/v1/auth/login/ arrives: RateLimitMiddleware.check_rate_limit takes its
\* current_time
login_gate_now(w, client_ip, email, password) ==
    LET request == [LoginIdle EXCEPT !.client = client_ip, !.email = email,
                                     !.password = password, !.current_time = now]
    IN  /\ work[w].pc = "idle"
        /\ IF ~RATE_LIMIT_MIDDLEWARE \/ matching(LOGIN_PATH) = {}
           THEN work' = [work EXCEPT ![w] = [request EXCEPT !.pc = "gated"]]
           ELSE work' = [work EXCEPT ![w] = [request EXCEPT !.pc = "gate_timed"]]
        /\ UNCHANGED <<now, cache, resp, rlhist, users, issued, successes, lastReset,
                       authvars>>

\* RateLimitMiddleware.check_rate_limit from cache.get to its limit check
login_gate_read(w) ==
    LET config == rate_limits[first_match(LOGIN_PATH)]
        requests == check_rate_limit_prune(
                        cache_get(middleware_cache_key(work[w].client, config.path), <<>>),
                        work[w].current_time, config.window)
    IN  /\ work[w].pc = "gate_timed"
        /\ IF check_rate_limit_exceeded(requests, config.limit)
           THEN /\ resp' = LoginResult(work[w].email, work[w].password, 429, {},
                                       middleware_retry_after, NoUser, NoTokens, "")
                /\ work' = [work EXCEPT ![w] = Idle]
           ELSE /\ work' = [work EXCEPT ![w].pc = "gate_passed",
                                        ![w].requests = requests]
                /\ UNCHANGED resp
        /\ UNCHANGED <<now, cache, rlhist, users, issued, successes, lastReset, authvars>>

\* RateLimitMiddleware.check_rate_limit: requests.append, cache.set; get_response is next
login_gate_write(w) ==
    LET config == rate_limits[first_match(LOGIN_PATH)]
    IN  /\ work[w].pc = "gate_passed"
        /\ cache' = cache_set(middleware_cache_key(work[w].client, config.path),
                              Append(work[w].requests, work[w].current_time),
                              config.window)
        /\ work' = [work EXCEPT ![w].pc = "gated", ![w].requests = <<>>]
        /\ UNCHANGED <<now, resp, rlhist, users, issued, successes, lastReset, authvars>>

\* rate_limit.wrapper of login_user: get_client_ip, cache_key and cache.get
login_wrapper_get(w) ==
    /\ work[w].pc = "gated"
    /\ work' = [work EXCEPT ![w].pc = "wrapper_got",
                            ![w].requests =
                                cache_get(decorator_cache_key("login_user",
                                                              work[w].client), <<>>)]
    /\ UNCHANGED <<now, cache, resp, rlhist, users, issued, successes, lastReset,
                   authvars>>

\* rate_limit.wrapper of login_user from timezone.now() to its limit check
login_wrapper_read(w) ==
    LET current_requests == prune(work[w].requests, now, time_window("login_user"))
    IN  /\ work[w].pc = "wrapper_got"
        /\ IF limit_exceeded(current_requests, max_requests("login_user"))
           THEN /\ resp' = LoginResult(work[w].email, work[w].password, 429, {},
                                       decorator_retry_after("login_user"), NoUser,
                                       NoTokens, "")
                /\ work' = [work EXCEPT ![w] = Idle]
           ELSE /\ work' = [work EXCEPT ![w].pc = "wrapper_passed",
                                        ![w].requests = current_requests,
                                        ![w].current_time = now]
                /\ UNCHANGED resp
        /\ UNCHANGED <<now, cache, rlhist, users, issued, successes, lastReset, authvars>>

\* rate_limit.wrapper: current_requests.append, cache.set; the view is called next
login_wrapper_write(w) ==
    /\ work[w].pc = "wrapper_passed"
    /\ cache' = cache_set(decorator_cache_key("login_user", work[w].client),
                          Append(work[w].requests, work[w].current_time),
                          decorator_timeout("login_user"))
    /\ work' = [work EXCEPT ![w].pc = "counted", ![w].requests = <<>>]
    /\ UNCHANGED <<now, resp, rlhist, users, issued, successes, lastReset, authvars>>

\* views.login_user: serializer.is_valid(), where authenticate reads the user, and the
\* 400 response
login_validate(w) ==
    LET errors == login_errors(work[w].email, work[w].password)
        ids == users_with_email(work[w].email)
        reset == IF ids # {} /\ (CHOOSE i \in ids : TRUE) \in DOMAIN lastReset
                 THEN lastReset[CHOOSE i \in ids : TRUE]
                 ELSE ""
    IN  /\ work[w].pc = "counted"
        /\ IF errors # {}
           THEN /\ resp' = LoginResult(work[w].email, work[w].password, 400, errors, 0,
                                       NoUser, NoTokens, reset)
                /\ work' = [work EXCEPT ![w] = Idle]
           ELSE LET user_id == authenticate(work[w].email, work[w].password)
                IN  /\ work' = [work EXCEPT ![w].pc = "valid", ![w].user_id = user_id,
                                             ![w].user = users[user_id],
                                             ![w].reset = reset]
                    /\ UNCHANGED resp
        /\ UNCHANGED <<now, cache, rlhist, users, issued, successes, lastReset, authvars>>

\* tokens = TokenService.get_tokens_for_user(user): the pair expires from the time of
\* this call
login_tokens(w) ==
    LET tokens == get_tokens_for_user(work[w].user_id)
    IN  /\ work[w].pc = "valid"
        /\ Len(pairs) < MaxPairs
        /\ pairs' = Append(pairs, tokens)
        /\ work' = [work EXCEPT ![w].pc = "tokened", ![w].tokens = tokens]
        /\ UNCHANGED <<now, cache, resp, rlhist, users, issued, successes, lastReset,
                       blacklist, revoked>>

\* user.last_login = timezone.now(), on the instance in hand
login_now(w) ==
    /\ work[w].pc = "tokened"
    /\ work' = [work EXCEPT ![w].pc = "dated", ![w].user.last_login = now]
    /\ UNCHANGED <<now, cache, resp, rlhist, users, issued, successes, lastReset, authvars>>

\* user.save(), an UPDATE of every column with the values of the instance, and the
\* 200 response
login_save(w) ==
    /\ work[w].pc = "dated"
    /\ users' = save(work[w].user_id, work[w].user)
    /\ resp' = LoginResult(work[w].email, work[w].password, 200, {}, 0,
                           work[w].user_id, work[w].tokens, work[w].reset)
    /\ work' = [work EXCEPT ![w] = Idle]
    /\ UNCHANGED <<now, cache, rlhist, issued, successes, lastReset, authvars>>

\* the requests: a token for john.doe, a reset with a new password, and logins of
\* john.doe with the password he had and with the new one; one request of each kind
\* at a time
ReloginBodies == {<<"newpassword456", "newpassword456">>}

ResetWorkers == {"w1"}

ReloginWorkers == {"w2"}

NextRelogin ==
    \/ \E d \in ResetTickSteps : Elapse(d)
    \/ \E w \in ResetWorkers :
            create_password_reset_token(w, <<"john.doe", "example.com">>, FALSE, MaxTokens)
    \/ \E w \in ResetWorkers : create_password_reset_token_now(w)
    \/ \E w \in ResetWorkers : create_password_reset_token_set(w)
    \/ \E w \in ResetWorkers : create_password_reset_token_send(w)
    \/ \E w \in ResetWorkers, t \in PresentedTokens, b \in ReloginBodies :
            reset_password_begin(w, t, b[1], b[2])
    \/ \E w \in ResetWorkers : reset_password_get(w)
    \/ \E w \in ResetWorkers : reset_password_save(w)
    \/ \E w \in ResetWorkers : reset_password_finish(w)
    \/ \E w \in ReloginWorkers, ip \in RLClients, p \in RecoverPasswords :
            login_gate_now(w, ip, <<"john.doe", "example.com">>, p)
    \/ \E w \in ReloginWorkers : login_gate_read(w)
    \/ \E w \in ReloginWorkers : login_gate_write(w)
    \/ \E w \in ReloginWorkers : login_wrapper_get(w)
    \/ \E w \in ReloginWorkers : login_wrapper_read(w)
    \/ \E w \in ReloginWorkers : login_wrapper_write(w)
    \/ \E w \in ReloginWorkers : login_validate(w)
    \/ \E w \in ReloginWorkers : login_tokens(w)
    \/ \E w \in ReloginWorkers : login_now(w)
    \/ \E w \in ReloginWorkers : login_save(w)

SpecRelogin == InitReset /\ [][NextRelogin]_vars

\* the login was for a user for whom a reset-password request had succeeded before the
\* login's credentials were checked, and was not turned away by the rate limiter
LoginAfterReset(user_id) ==
    /\ resp.op = "login_user"
    /\ resp.status # 429
    /\ resp.reset # ""
    /\ users[user_id].email = lower_email(resp.email)

\* C19: once a reset-password request has succeeded for a user, a login of that user
\* succeeds with the password of the last successful reset and fails with any other,
\* the previous password included
C19_LoginFollowsLastReset ==
    \A user_id \in DOMAIN users :
        LoginAfterReset(user_id)
            => IF resp.password = resp.reset
               THEN resp.status = 200 /\ resp.user = user_id /\ resp.tokens # NoTokens
               ELSE resp.status = 400 /\ resp.tokens = NoTokens

(***************************************************************************)
(* validate_reset_token under SpecReset                                    *)
(***************************************************************************)
\* a step that is a call of validate_reset_token
ResolveStep ==
    /\ resp'.op = "validate_reset_token"
    /\ now' = now
    /\ work' = work

\* what the token is bound to: the email it was issued for while it is neither
\* consumed nor TOKEN_EXPIRY_SECONDS old, nothing otherwise
BoundEmail(token) ==
    IF /\ token \in DOMAIN issued
       /\ successes[token] = 0
       /\ now < issued[token].at + TOKEN_EXPIRY_SECONDS
    THEN issued[token].email
    ELSE NoEmail

\* C20: validate_reset_token returns the email bound to an unexpired token and
\* not-found for an unknown or expired one, and leaves the cache as it was, so a token
\* that could be used for a reset before the call can be used after it
C20_ResolvePeeks ==
    [][ResolveStep
        => /\ resp'.result = BoundEmail(resp'.token)
           /\ cache' = cache
           /\ \A t \in PresentedTokens :
                  ResetCanSucceed(t)' <=> ResetCanSucceed(t)]_vars

\* a token was resolved to its email and is still good for a reset
C20_Witness ==
    /\ resp.op = "validate_reset_token"
    /\ resp.token \in DOMAIN issued
    /\ resp.result = issued[resp.token].email
    /\ ResetCanSucceed(resp.token)

(***************************************************************************)
(* views.register_user under overlapping requests: serializer.is_valid()   *)
(* and serializer.save() of one request are two steps, and the steps of    *)
(* other requests can fall between them.                                   *)
(***************************************************************************)
\* a worker with no register request in hand
RegisterIdle == [pc |-> "idle", client |-> "", sent |-> NoEmail, email |-> NoEmail,
                 full_name |-> <<>>, password |-> "", password_confirm |-> "",
                 errors |-> {}, dup |-> FALSE, requests |-> <<>>, current_time |-> 0,
                 user_id |-> 0]

\* the claim's notion of a duplicate, not a lookup of the code (which compares exactly,
\* users_with_email): a stored user has the email when letter case is set aside
email_taken_up_to_case(email) ==
    \E i \in DOMAIN users : lower_email(users[i].email) = lower_email(email)

\* the response of the register pipeline, with what the properties need to know of the
\* request: the email as sent, whether a user had it up to letter case when the request
\* was validated (dup), and whether a user had the validated email when it was saved
RegisterAnswer(email, status, errors, retry_after, user, tokens, dup, taken) ==
    [op |-> "register_user", email |-> email, status |-> status, errors |-> errors,
     retry_after |-> retry_after, user |-> user, tokens |-> tokens, dup |-> dup,
     taken |-> taken]

\* POST /api/v1/auth/register/ arrives: RateLimitMiddleware.check_rate_limit takes its
\* current_time
register_gate_now(w, client_ip, email, full_name, password, password_confirm) ==
    LET request == [RegisterIdle EXCEPT !.client = client_ip, !.sent = email,
                                        !.full_name = full_name, !.password = password,
                                        !.password_confirm = password_confirm,
                                        !.current_time = now]
    IN  /\ work[w].pc = "idle"
        /\ IF ~RATE_LIMIT_MIDDLEWARE \/ matching(REGISTER_PATH) = {}
           THEN work' = [work EXCEPT ![w] = [request EXCEPT !.pc = "gated"]]
           ELSE work' = [work EXCEPT ![w] = [request EXCEPT !.pc = "gate_timed"]]
        /\ UNCHANGED <<now, cache, resp, rlhist, users, issued, successes, lastReset,
                       authvars>>

\* RateLimitMiddleware.check_rate_limit from cache.get to its limit check
register_gate_read(w) ==
    LET config == rate_limits[first_match(REGISTER_PATH)]
        requests == check_rate_limit_prune(
                        cache_get(middleware_cache_key(work[w].client, config.path), <<>>),
                        work[w].current_time, config.window)
    IN  /\ work[w].pc = "gate_timed"
        /\ IF check_rate_limit_exceeded(requests, config.limit)
           THEN /\ resp' = RegisterAnswer(work[w].sent, 429, {}, middleware_retry_after,
                                          NoUser, NoTokens,
                                          email_taken_up_to_case(work[w].sent), FALSE)
                /\ work' = [work EXCEPT ![w] = RegisterIdle]
           ELSE /\ work' = [work EXCEPT ![w].pc = "gate_passed",
                                        ![w].requests = requests]
                /\ UNCHANGED resp
        /\ UNCHANGED <<now, cache, rlhist, users, issued, successes, lastReset, authvars>>

\* RateLimitMiddleware.check_rate_limit: requests.append, cache.set; get_response is next
register_gate_write(w) ==
    LET config == rate_limits[first_match(REGISTER_PATH)]
    IN  /\ work[w].pc = "gate_passed"
        /\ cache' = cache_set(middleware_cache_key(work[w].client, config.path),
                              Append(work[w].requests, work[w].current_time),
                              config.window)
        /\ work' = [work EXCEPT ![w].pc = "gated", ![w].requests = <<>>]
        /\ UNCHANGED <<now, resp, rlhist, users, issued, successes, lastReset, authvars>>

\* rate_limit.wrapper of register_user: get_client_ip, cache_key and cache.get
register_wrapper_get(w) ==
    /\ work[w].pc = "gated"
    /\ work' = [work EXCEPT ![w].pc = "wrapper_got",
                            ![w].requests =
                                cache_get(decorator_cache_key("register_user",
                                                              work[w].client), <<>>)]
    /\ UNCHANGED <<now, cache, resp, rlhist, users, issued, successes, lastReset,
                   authvars>>

\* rate_limit.wrapper of register_user from timezone.now() to its limit check
register_wrapper_read(w) ==
    LET current_requests == prune(work[w].requests, now, time_window("register_user"))
    IN  /\ work[w].pc = "wrapper_got"
        /\ IF limit_exceeded(current_requests, max_requests("register_user"))
           THEN /\ resp' = RegisterAnswer(work[w].sent, 429, {},
                                          decorator_retry_after("register_user"), NoUser,
                                          NoTokens, email_taken_up_to_case(work[w].sent),
                                          FALSE)
                /\ work' = [work EXCEPT ![w] = RegisterIdle]
           ELSE /\ work' = [work EXCEPT ![w].pc = "wrapper_passed",
                                        ![w].requests = current_requests,
                                        ![w].current_time = now]
                /\ UNCHANGED resp
        /\ UNCHANGED <<now, cache, rlhist, users, issued, successes, lastReset, authvars>>

\* rate_limit.wrapper: current_requests.append, cache.set; the view is called next
register_wrapper_write(w) ==
    /\ work[w].pc = "wrapper_passed"
    /\ cache' = cache_set(decorator_cache_key("register_user", work[w].client),
                          Append(work[w].requests, work[w].current_time),
                          decorator_timeout("register_user"))
    /\ work' = [work EXCEPT ![w].pc = "counted", ![w].requests = <<>>]
    /\ UNCHANGED <<now, resp, rlhist, users, issued, successes, lastReset, authvars>>

\* views.register_user, serializer.is_valid(): the lookup of the UniqueValidator of the
\* email field
register_validate_unique(w) ==
    /\ work[w].pc = "counted"
    /\ work' = [work EXCEPT ![w].pc = "unique_checked",
                            ![w].errors = unique_errors(work[w].sent)]
    /\ UNCHANGED <<now, cache, resp, rlhist, users, issued, successes, lastReset,
                   authvars>>

\* views.register_user: the rest of serializer.is_valid(), from the lookup of
\* validate_email when the UniqueValidator found no user, and the 400 response
register_validate(w) ==
    LET dup == email_taken_up_to_case(work[w].sent)
        errors == is_valid_errors(IF work[w].errors # {}
                                  THEN work[w].errors
                                  ELSE validate_email_errors(work[w].sent),
                                  work[w].full_name, work[w].password,
                                  work[w].password_confirm)
    IN  /\ work[w].pc = "unique_checked"
        /\ IF errors # {}
           THEN /\ resp' = RegisterAnswer(work[w].sent, 400, errors, 0, NoUser, NoTokens,
                                          dup, FALSE)
                /\ work' = [work EXCEPT ![w] = RegisterIdle]
           ELSE /\ work' = [work EXCEPT ![w].pc = "valid",
                                        ![w].errors = {},
                                        ![w].email = lower_email(work[w].sent),
                                        ![w].full_name =
                                            validated_full_name(work[w].full_name),
                                        ![w].dup = dup]
                /\ UNCHANGED resp
        /\ UNCHANGED <<now, cache, rlhist, users, issued, successes, lastReset, authvars>>

\* the workers whose user is stored and whose token pair is not yet issued
Registering == {w \in DOMAIN work : work[w].pc = "saved"}

\* user = serializer.save(): the INSERT; its IntegrityError is not caught by the view
register_save(w) ==
    /\ work[w].pc = "valid"
    /\ IF IntegrityError(work[w].email)
       THEN /\ resp' = RegisterAnswer(work[w].sent, 500, {"IntegrityError"}, 0, NoUser,
                                      NoTokens, work[w].dup, TRUE)
            /\ work' = [work EXCEPT ![w] = RegisterIdle]
            /\ UNCHANGED users
       ELSE /\ Len(pairs) + Cardinality(Registering) < MaxPairs
            /\ users' = create_user(work[w].email, work[w].full_name, work[w].password)
            /\ work' = [work EXCEPT ![w].pc = "saved", ![w].user_id = Len(users) + 1]
            /\ UNCHANGED resp
    /\ UNCHANGED <<now, cache, rlhist, issued, successes, lastReset, authvars>>

\* tokens = TokenService.get_tokens_for_user(user), UserProfileSerializer(user).data of
\* the instance in hand, and the 201 response
register_tokens(w) ==
    LET tokens == get_tokens_for_user(work[w].user_id)
    IN  /\ work[w].pc = "saved"
        /\ pairs' = Append(pairs, tokens)
        /\ resp' = RegisterAnswer(work[w].sent, 201, {}, 0, work[w].user_id, tokens,
                                  work[w].dup, FALSE)
        /\ work' = [work EXCEPT ![w] = RegisterIdle]
        /\ UNCHANGED <<now, cache, rlhist, users, issued, successes, lastReset, blacklist,
                       revoked>>

InitRegister ==
    /\ now = 0
    /\ cache = <<>>
    /\ resp = [op |-> "none"]
    /\ admitted = [c \in Counters |-> <<>>]
    /\ wasFull = [c \in Counters |-> FALSE]
    /\ nreq = 0
    /\ users = <<>>
    /\ work = [w \in Workers |-> RegisterIdle]
    /\ issued = <<>>
    /\ successes = <<>>
    /\ lastReset = <<>>
    /\ pairs = <<>>
    /\ blacklist = {}
    /\ revoked = {}

\* the clock moves by one window, whatever the requests are doing
RegisterTickSteps == {REGISTER_TIME_WINDOW}

RegisterTick(d) ==
    /\ now + d <= MaxTime
    /\ now' = now + d
    /\ UNCHANGED <<cache, resp, rlhist, resetvars, authvars>>

\* the requests: one client; an email with the name "Alice", another spelling of it
\* with the name "\fAlice", both with valid passwords, and the email with the name
\* "\rA", which is one character once stripped
RaceBodies ==
    {[email |-> <<"alice", "example.com">>, full_name |-> <<65, 108, 105, 99, 101>>,
      password |-> "Str0ngPassw!", password_confirm |-> "Str0ngPassw!"],
     [email |-> <<"Alice", "example.com">>, full_name |-> <<12, 65, 108, 105, 99, 101>>,
      password |-> "Str0ngPassw!", password_confirm |-> "Str0ngPassw!"],
     [email |-> <<"alice", "example.com">>, full_name |-> <<13, 65>>,
      password |-> "Str0ngPassw!", password_confirm |-> "Str0ngPassw!"]}

NextRegister ==
    \/ \E w \in Workers, ip \in RLClients, b \in RaceBodies :
            register_gate_now(w, ip, b.email, b.full_name, b.password,
                              b.password_confirm)
    \/ \E w \in Workers : register_gate_read(w)
    \/ \E w \in Workers : register_gate_write(w)
    \/ \E w \in Workers : register_wrapper_get(w)
    \/ \E w \in Workers : register_wrapper_read(w)
    \/ \E w \in Workers : register_wrapper_write(w)
    \/ \E w \in Workers : register_validate_unique(w)
    \/ \E w \in Workers : register_validate(w)
    \/ \E w \in Workers : register_save(w)
    \/ \E w \in Workers : register_tokens(w)
    \/ \E d \in RegisterTickSteps : RegisterTick(d)

SpecRegister == InitRegister /\ [][NextRegister]_vars

\* the duplicate-email validation errors: of the UniqueValidator of the email field
\* and of validate_email
DuplicateEmailError == {"User with this email address already exists.",
                        "A user with this email already exists."}

\* what UserRegistrationSerializer.validate says of the passwords
PasswordErrors == {"Passwords do not match.", "This password is too short."}

\* what the full_name field and validate_full_name say of the name
FullNameErrors == {"This field may not be blank.",
                   "Ensure this field has no more than 255 characters.",
                   "Full name must be at least 2 characters long."}

\* C13: no two stored users have emails that are equal up to letter case, and a
\* register request whose email a stored user has up to letter case is answered 400
\* and creates no user, with the duplicate-email validation error unless it is its
\* name or its passwords that are refused
C13_EmailsUniqueUpToCase ==
    /\ \A i, j \in DOMAIN users :
            lower_email(users[i].email) = lower_email(users[j].email) => i = j
    /\ (resp.op = "register_user" /\ resp.status # 429 /\ resp.dup)
            => /\ resp.status = 400
               /\ resp.user = NoUser
               /\ \/ resp.errors \cap DuplicateEmailError # {}
                  \/ resp.errors \subseteq PasswordErrors \cup FullNameErrors

\* the request was validated while no user had its email and saved after an overlapping
\* request for the same email had created the user
LostTheRace ==
    /\ resp.op = "register_user"
    /\ ~resp.dup
    /\ resp.taken
    /\ \E i \in DOMAIN users : users[i].email = resp.email

\* C14: of two overlapping register requests for the same unused email one creates the
\* user, and the other is answered 400 with the duplicate-email validation error
C14_LoserGetsValidationError ==
    /\ \A i, j \in DOMAIN users : users[i].email = users[j].email => i = j
    /\ LostTheRace
            => /\ resp.status = 400
               /\ resp.errors # {}
               /\ resp.errors \subseteq DuplicateEmailError

(***************************************************************************)
(* Logout with a refresh token that does not verify, under SpecLogout      *)
(***************************************************************************)
\* a step that ends with the answer of logout_user to an authenticated request
LogoutStep ==
    /\ \E w \in Workers : work[w].pc # "idle" /\ work'[w].pc = "idle"
    /\ resp'.op = "logout_user"
    /\ resp'.status # 401

\* C21: a logout whose refresh_token cannot be parsed or verified (malformed, wrong
\* signature, expired) when the view checks it is answered 400 and leaves the
\* blacklist as it was
C21_BadRefreshTokenRejected ==
    [][(LogoutStep /\ resp'.unverifiable)
            => /\ resp'.status = 400
               /\ blacklist' = blacklist]_vars

\* a logout with an expired refresh token of this service was refused
C21_Witness ==
    /\ resp.op = "logout_user"
    /\ resp.status = 400
    /\ resp.at = now
    /\ resp.unverifiable
    /\ resp.refresh_token.signed
    /\ now >= resp.refresh_token.exp
    /\ ~check_blacklist(resp.refresh_token)

\* C22: a logout with a refresh token that is already on the blacklist when the view
\* checks it is answered with an error, not with the success response, and leaves the
\* blacklist as it was
C22_RevokedRefreshTokenRejected ==
    [][(LogoutStep /\ resp'.was_revoked)
            => /\ resp'.status = 400
               /\ blacklist' = blacklist]_vars

\* the second logout with a refresh token, before the token's expiry, was refused
C22_Witness ==
    /\ resp.op = "logout_user"
    /\ resp.status = 400
    /\ resp.at = now
    /\ resp.was_revoked
    /\ resp.refresh_token.signed
    /\ now < resp.refresh_token.exp
    /\ resp.refresh_token.jti \in revoked

(***************************************************************************)
(* get_client_ip: the client a request is counted for                      *)
(***************************************************************************)
\* A header value is the sequence of its pieces: "," for a comma, and the text between
\* two commas as one string (so no two texts are adjacent); <<>> is the empty string,
\* and also stands for a header that is absent (request.META.get gives None)
RECURSIVE split_comma(_)
\* str.split(','): the list of the texts between the commas
split_comma(s) ==
    IF s = <<>>
    THEN <<"">>
    ELSE IF Head(s) = ","
         THEN <<"">> \o split_comma(Tail(s))
         ELSE <<Head(s)>> \o Tail(split_comma(Tail(s)))

\* a client identifier that ignores the forwarded-for header
get_client_ip_ignoring_header(META) == META.REMOTE_ADDR

\* decorators.get_client_ip
get_client_ip(META) ==
    IF META.HTTP_X_FORWARDED_FOR # <<>>
    THEN split_comma(META.HTTP_X_FORWARDED_FOR)[1]
    ELSE META.REMOTE_ADDR

\* RateLimitMiddleware.get_client_ip
middleware_get_client_ip(META) ==
    IF META.HTTP_X_FORWARDED_FOR # <<>>
    THEN split_comma(META.HTTP_X_FORWARDED_FOR)[1]
    ELSE META.REMOTE_ADDR

\* the response to a request with the given META, and the cache keys it was counted under
MetaAnswer(META, status, counted) ==
    [layer |-> "pipeline", META |-> META, status |-> status, counted |-> counted]

\* POST /api/v1/auth/login/ with the given request.META: RateLimitMiddleware and
\* rate_limit.wrapper, each with its own get_client_ip, the view left abstract
http_login_from(META) ==
    LET gate_ip == middleware_get_client_ip(META)
        client_ip == get_client_ip(META)
        gate_key == middleware_cache_key(gate_ip, LOGIN_PATH)
        view_key == decorator_cache_key("login_user", client_ip)
    IN
    /\ nreq < MaxRequests
    /\ nreq' = nreq + 1
    /\ IF gate_rejects(gate_ip, LOGIN_PATH)
       THEN /\ resp' = MetaAnswer(META, 429, {})
            /\ UNCHANGED <<cache, admitted>>
       ELSE IF wrapper_rejects("login_user", client_ip)
       THEN /\ resp' = MetaAnswer(META, 429, {gate_key})
            /\ cache' = gate_records(cache, gate_ip, LOGIN_PATH)
            /\ admitted' = AdmittedAfter(Gate(gate_ip, "login"), FALSE)
       ELSE /\ resp' = MetaAnswer(META, 200, {gate_key, view_key})
            /\ cache' = gate_records(wrapper_records("login_user", client_ip),
                                     gate_ip, LOGIN_PATH)
            /\ admitted' = AdmittedAfter(Gate(gate_ip, "login"), TRUE)
    /\ UNCHANGED <<now, wasFull, resetvars, authvars>>

\* the connection addresses and the X-Forwarded-For values of the requests: no header,
\* one address, and two lists of a client and a proxy
RemoteAddrs == Clients

ForwardedFor == {<<>>, <<"10.0.0.1">>, <<"10.0.0.2", ",", " 10.0.0.1">>,
                 <<"10.0.0.1", ",", " 10.0.0.2">>}

Metas == [REMOTE_ADDR : RemoteAddrs, HTTP_X_FORWARDED_FOR : ForwardedFor]

NextClient ==
    \/ \E d \in RLTickSteps : Tick(d)
    \/ \E META \in Metas : http_login_from(META)

SpecClient == InitRL /\ [][NextClient]_vars

\* the text before the first comma of a header value
FirstEntry(header) == IF Head(header) = "," THEN "" ELSE Head(header)

\* the client identifier the rate limiter is to use for a request
ClientIdentity(META) ==
    IF META.HTTP_X_FORWARDED_FOR # <<>>
    THEN FirstEntry(META.HTTP_X_FORWARDED_FOR)
    ELSE META.REMOTE_ADDR

\* the counters of a client on the login endpoint
LoginKeys(client) ==
    {middleware_cache_key(client, LOGIN_PATH), decorator_cache_key("login_user", client)}

RequestFrom(META) == resp.layer = "pipeline" /\ resp.META = META

\* C23: a request is counted under the first entry of its X-Forwarded-For header when
\* the header is there and not empty, under REMOTE_ADDR otherwise, and under nothing
\* else; two requests from one connection address whose first forwarded-for entries
\* differ are counted under different keys
C23_ClientIsFirstForwardedEntry ==
    /\ \A META \in Metas :
            RequestFrom(META) => resp.counted \subseteq LoginKeys(ClientIdentity(META))
    /\ \A a, b \in Metas :
            (/\ a.REMOTE_ADDR = b.REMOTE_ADDR
             /\ a.HTTP_X_FORWARDED_FOR # <<>>
             /\ b.HTTP_X_FORWARDED_FOR # <<>>
             /\ FirstEntry(a.HTTP_X_FORWARDED_FOR) # FirstEntry(b.HTTP_X_FORWARDED_FOR))
                => LoginKeys(get_client_ip(a)) \cap LoginKeys(get_client_ip(b)) = {}

\* a request that came over one address and named another as its first forwarded-for
\* entry was admitted while the counter of its connection address was full
C23_Witness ==
    /\ resp.layer = "pipeline"
    /\ resp.status = 200
    /\ resp.META.REMOTE_ADDR = "10.0.0.1"
    /\ resp.META.HTTP_X_FORWARDED_FOR # <<>>
    /\ FirstEntry(resp.META.HTTP_X_FORWARDED_FOR) = "10.0.0.2"
    /\ resp.counted = LoginKeys("10.0.0.2")
    /\ Len(cache_get(decorator_cache_key("login_user", "10.0.0.1"), <<>>)) = LOGIN_MAX_REQUESTS

(***************************************************************************)
(* Two clients on register and forgot-password, which have the same limit  *)
(* and window, one request at a time.                                      *)
(***************************************************************************)
KeyViews == {"register_user", "request_password_reset"}

KeyPaths == {REGISTER_PATH}

\* one step of time: to the instant the windows of both endpoints have run out
KeyTickSteps == {REGISTER_TIME_WINDOW}

NextKeys ==
    \/ \E d \in KeyTickSteps : Tick(d)
    \/ \E v \in KeyViews, ip \in Clients : wrapper(v, ip)
    \/ \E ip \in RLClients, p \in KeyPaths : middleware_call(ip, p)

SpecKeys == InitRL /\ [][NextKeys]_vars

\* the counters the code keeps: the middleware's four, and the decorator's three
KeptCounters == {c \in Counters : c.layer = "middleware" \/ c.endpoint # "reset-password"}

\* the next request to the counter would be turned away
WouldReject(c) ==
    IF c.layer = "decorator"
    THEN wrapper_rejects(EndpointView(c.endpoint), c.client)
    ELSE is_rate_limited(c.client, EndpointPath(c.endpoint))

\* the cache holds for the key after the step what it held before
SameEntry(key) ==
    /\ key \in DOMAIN cache' <=> key \in DOMAIN cache
    /\ key \in DOMAIN cache => cache'[key] = cache[key]

\* C24: a request changes the counter of its own (client, endpoint) pair only: the
\* stored counter of every other client, and of the same client on every other
\* endpoint, is what it was, and so is the answer the next request to it would get
C24_CountersIndependent ==
    [][(nreq' = nreq + 1)
        => \A c \in KeptCounters :
              (c.client # resp'.client \/ c.endpoint # resp'.endpoint
                    \/ c.layer # resp'.layer)
                => /\ SameEntry(CounterKey(c))
                   /\ WouldReject(c)' <=> WouldReject(c)]_vars

\* a forgot-password request of a client was admitted as its first while the register
\* counter of the same client stood at its limit
C24_Witness ==
    /\ resp.layer = "decorator"
    /\ resp.endpoint = "forgot-password"
    /\ resp.client = "10.0.0.1"
    /\ resp.status = 200
    /\ resp.in_window = 0
    /\ WouldReject([layer |-> "decorator", client |-> "10.0.0.1", endpoint |-> "register"])

(***************************************************************************)
(* Reset tokens whose email may fail to be sent, and one reset-password    *)
(* request at a time.                                                      *)
(***************************************************************************)
DeliveryWorkers == {"w1"}

NextDelivery ==
    \/ \E d \in ResetTickSteps : Elapse(d)
    \/ \E w \in IssueWorkers, e \in ResetEmails, send_raises \in BOOLEAN :
            create_password_reset_token(w, e, send_raises, MaxTokens)
    \/ \E w \in IssueWorkers : create_password_reset_token_now(w)
    \/ \E w \in IssueWorkers : create_password_reset_token_set(w)
    \/ \E w \in IssueWorkers : create_password_reset_token_send(w)
    \/ \E w \in DeliveryWorkers, t \in PresentedTokens, b \in ResetBodies :
            reset_password_begin(w, t, b[1], b[2])
    \/ \E w \in DeliveryWorkers : reset_password_get(w)
    \/ \E w \in DeliveryWorkers : reset_password_save(w)
    \/ \E w \in DeliveryWorkers : reset_password_finish(w)

SpecDelivery == InitReset /\ [][NextDelivery]_vars

\* the token was stored, send_reset_email raised, and no reset has used the token
Undelivered(token) ==
    /\ issued[token].raised
    /\ ~issued[token].sent
    /\ successes[token] = 0

\* C25: a token whose delivery failed stays in the cache and can be used for a reset
\* at every time before its 600 seconds are over
C25_UndeliveredTokenStays ==
    \A t \in DOMAIN issued :
        (Undelivered(t) /\ now < issued[t].at + 600)
            => /\ validate_reset_token(t) = issued[t].email
               /\ ResetCanSucceed(t)

\* 599 seconds after the failed delivery the token is still good for a reset
C25_Witness ==
    \E t \in DOMAIN issued :
        /\ Undelivered(t)
        /\ now = issued[t].at + 599
        /\ ResetCanSucceed(t)

(***************************************************************************)
(* The lifetime of a reset token: the clock moves between the steps of an  *)
(* issuance and for two token lifetimes after it.                          *)
(***************************************************************************)
\* time passes, for as long as LifetimeMaxTime
Wait(d) ==
    /\ now + d <= LifetimeMaxTime
    /\ now' = now + d
    /\ UNCHANGED <<cache, resp, rlhist, resetvars, authvars>>

LifetimeBodies == {<<"newpassword456", "newpassword456">>}

NextLifetime ==
    \/ \E d \in ResetTickSteps : Wait(d)
    \/ \E w \in IssueWorkers, e \in ResetEmails :
            create_password_reset_token(w, e, FALSE, MaxTokens)
    \/ \E w \in IssueWorkers : create_password_reset_token_now(w)
    \/ \E w \in IssueWorkers : create_password_reset_token_set(w)
    \/ \E w \in IssueWorkers : create_password_reset_token_send(w)
    \/ \E t \in PresentedTokens : validate_reset_token_call(t)
    \/ \E w \in DeliveryWorkers, t \in PresentedTokens, b \in LifetimeBodies :
            reset_password_begin(w, t, b[1], b[2])
    \/ \E w \in DeliveryWorkers : reset_password_get(w)
    \/ \E w \in DeliveryWorkers : reset_password_save(w)
    \/ \E w \in DeliveryWorkers : reset_password_finish(w)

SpecLifetime == InitReset /\ [][NextLifetime]_vars

\* C6, with T the time the token data records as created_at: a token issued at T and
\* not consumed resolves to its email and can be used for a reset at every time before
\* T + 600, and resolves to nothing at every time after T + 600
C6_TokenLifetime ==
    \A t \in DOMAIN issued :
        successes[t] = 0 =>
            /\ now < issued[t].created_at + 600 =>
                    /\ validate_reset_token(t) = issued[t].email
                    /\ ResetCanSucceed(t)
            /\ now > issued[t].created_at + 600 =>
                    /\ validate_reset_token(t) = NoEmail
                    /\ ~ResetCanSucceed(t)

\* C6, with T the time of the cache.set that stored the token: a token not consumed
\* resolves to its email and can be used for a reset at every time before T + 600, and
\* resolves to nothing at every time after T + 600; only the clock decides, nothing
\* sweeps the store. The created_at of the token data is no later than T, and the
\* token is handed to the caller no earlier than T
C6_TokenLifetimeFromStore ==
    \A t \in DOMAIN issued :
        /\ issued[t].created_at <= issued[t].at
        /\ successes[t] = 0 =>
            /\ now < issued[t].at + 600 =>
                    /\ validate_reset_token(t) = issued[t].email
                    /\ ResetCanSucceed(t)
            /\ now > issued[t].at + 600 =>
                    /\ validate_reset_token(t) = NoEmail
                    /\ ~ResetCanSucceed(t)

\* a token whose data was dated 599 seconds before it was stored has resolved to
\* nothing 601 seconds after the cache.set, and its entry is still in the cache
C6_Witness ==
    \E t \in DOMAIN issued :
        /\ successes[t] = 0
        /\ issued[t].created_at < issued[t].at
        /\ now = issued[t].at + 601
        /\ validate_reset_token(t) = NoEmail
        /\ reset_cache_key(t) \in DOMAIN cache

(***************************************************************************)
(* reset-password for a token whose user was given another email in the    *)
(* admin after the token was issued.                                       *)
(***************************************************************************)
\* the answer of UserAdmin's change view: whether the user was saved, and the error
AdminAnswer(user_id, saved, error) ==
    [op |-> "admin_change_email", user |-> user_id, saved |-> saved, error |-> error]

\* UserAdmin's change view, POST with another email for the user: get_object reads the
\* row, and the form sets the email on the instance
admin_change_email(w, user_id, email) ==
    /\ work[w].pc = "idle"
    /\ user_id \in DOMAIN users
    /\ users[user_id].email # email
    /\ work' = [work EXCEPT ![w] =
                   [Idle EXCEPT !.pc = "admin_got", !.user_id = user_id,
                                !.user = [users[user_id] EXCEPT !.email = email]]]
    /\ UNCHANGED <<now, cache, resp, rlhist, users, issued, successes, lastReset, authvars>>

\* form.is_valid(): validate_unique looks for another row with the email
admin_change_email_validate(w) ==
    /\ work[w].pc = "admin_got"
    /\ IF users_with_email(work[w].user.email) \ {work[w].user_id} # {}
       THEN /\ resp' = AdminAnswer(work[w].user_id, FALSE,
                                   "User with this Email address already exists.")
            /\ work' = [work EXCEPT ![w] = Idle]
       ELSE /\ work' = [work EXCEPT ![w].pc = "admin_valid"]
            /\ UNCHANGED resp
    /\ UNCHANGED <<now, cache, rlhist, users, issued, successes, lastReset, authvars>>

\* save_model: obj.save(), an UPDATE of every column with the values of the instance
\* as it was read, the email replaced; the unique constraint refuses an email another
\* row has got in the meantime
admin_change_email_save(w) ==
    /\ work[w].pc = "admin_valid"
    /\ IF users_with_email(work[w].user.email) \ {work[w].user_id} # {}
       THEN /\ resp' = AdminAnswer(work[w].user_id, FALSE, "IntegrityError")
            /\ UNCHANGED users
       ELSE /\ users' = save(work[w].user_id, work[w].user)
            /\ resp' = AdminAnswer(work[w].user_id, TRUE, "")
    /\ work' = [work EXCEPT ![w] = Idle]
    /\ UNCHANGED <<now, cache, rlhist, issued, successes, lastReset, authvars>>

\* the worker that serves the admin
AdminWorkers == {"w2"}

\* the emails the admin gives to a user: a new one, and the one john.doe had
AdminEmails == {<<"j.doe", "example.com">>, <<"john.doe", "example.com">>}

\* the emails tokens are asked for
AdminTokenEmails == {<<"john.doe", "example.com">>}

NextAdmin ==
    \/ \E d \in ResetTickSteps : Elapse(d)
    \/ \E w \in IssueWorkers, e \in AdminTokenEmails :
            create_password_reset_token(w, e, FALSE, MaxTokens)
    \/ \E w \in IssueWorkers : create_password_reset_token_now(w)
    \/ \E w \in IssueWorkers : create_password_reset_token_set(w)
    \/ \E w \in IssueWorkers : create_password_reset_token_send(w)
    \/ \E w \in AdminWorkers, u \in DOMAIN TestUsers, e \in AdminEmails :
            admin_change_email(w, u, e)
    \/ \E w \in AdminWorkers : admin_change_email_validate(w)
    \/ \E w \in AdminWorkers : admin_change_email_save(w)
    \/ \E w \in DeliveryWorkers, t \in PresentedTokens, b \in ResetBodies :
            reset_password_begin(w, t, b[1], b[2])
    \/ \E w \in DeliveryWorkers : reset_password_get(w)
    \/ \E w \in DeliveryWorkers : reset_password_save(w)
    \/ \E w \in DeliveryWorkers : reset_password_finish(w)

SpecAdmin == InitReset /\ [][NextAdmin]_vars

\* C26: when a reset-password operation that has read a valid token from the cache
\* finishes, with a success or with a failure, the token is not in the cache
C26_TokenGoneAfterRead ==
    [][\A w \in Workers, t \in AllTokens :
            (/\ work[w].pc \in {"got_token", "got_user", "saved"}
             /\ work[w].token = t
             /\ work'[w].pc = "idle")
                => (cache_get(reset_cache_key(t), NoTokenData) = NoTokenData)']_vars

(***************************************************************************)
(* Whose password a reset changes, under SpecAdmin: the admin gives the    *)
(* users other emails while tokens are issued and used.                    *)
(***************************************************************************)
\* the user the token was issued for: 'user_id': user.id of the token data
TokenUser(token) == issued[token].user_id

\* the step is the user.save() of the reset-password request of worker w
ResetSaveStep(w) ==
    /\ work[w].pc = "got_user"
    /\ work'[w].pc = "saved"

\* after the step the user the token of worker w was issued for has the password of
\* the request, and every other user the password they had
SavesForTokenUser(w) ==
    \A i \in DOMAIN users :
        users'[i].password = IF i = TokenUser(work[w].token)
                             THEN work[w].new_password
                             ELSE users[i].password

\* the step is one in which views.reset_password answers 400
FailedResetStep ==
    /\ resp'.op = "reset_password"
    /\ resp'.status = 400
    /\ \/ resp' # resp
       \/ \E w \in Workers : work[w].pc = "got_token" /\ work'[w].pc = "idle"

\* C36: a reset that succeeds changes the password of the user for whom the token was
\* issued and of nobody else, and a reset-password request that fails changes no
\* password
C36_ResetChangesTokenUserOnly ==
    [][/\ \A w \in Workers : ResetSaveStep(w) => SavesForTokenUser(w)
       /\ FailedResetStep => \A i \in DOMAIN users : users'[i].password = users[i].password
      ]_vars

(***************************************************************************)
(* The timestamps of a stored counter, under SpecRL and SpecRace           *)
(***************************************************************************)
\* the counter's key is in the cache and has not expired
KeyExists(c) ==
    /\ CounterKey(c) \in DOMAIN cache
    /\ now < cache[CounterKey(c)].expires

\* the list stored under the counter's key, as it was written
StoredList(c) == cache[CounterKey(c)].value

\* when the counter was last written: its key lives for `window` seconds from then
LastWrite(c) == cache[CounterKey(c)].expires - PolicyWindow(c.endpoint)

\* C27: at every time, every timestamp of a stored counter whose key exists is
\* less than `window` old
C27_StoredTimestampsFresh ==
    \A c \in KeptCounters :
        KeyExists(c)
            => \A i \in DOMAIN StoredList(c) :
                    now - StoredList(c)[i] < PolicyWindow(c.endpoint)

\* C27, amended: every timestamp of a stored counter is less than `window` older than
\* the last timestamp of its list, the timestamp of the request that wrote it; a
\* timestamp that has grown older than `window` stays stored until the next admitted
\* request prunes it or the key expires, and is not counted by a check made now
C27_StoredTimestampsWithinWindowOfLast ==
    \A c \in KeptCounters :
        KeyExists(c)
            => /\ \A i \in DOMAIN StoredList(c) :
                    StoredList(c)[Len(StoredList(c))] - StoredList(c)[i]
                        < PolicyWindow(c.endpoint)
               /\ \A i \in DOMAIN StoredList(c) :
                    now - StoredList(c)[i] >= PolicyWindow(c.endpoint)
                        => Len(prune(StoredList(c), now, PolicyWindow(c.endpoint)))
                                < Len(StoredList(c))

\* a key that exists holds a timestamp that is `window` old
C27_Witness ==
    \E c \in KeptCounters :
        /\ KeyExists(c)
        /\ \E i \in DOMAIN StoredList(c) :
                now - StoredList(c)[i] >= PolicyWindow(c.endpoint)

(***************************************************************************)
(* The rate limiter under overlapping requests: the cache.get, the reading *)
(* of the clock and the cache.set of one request are separate steps, and   *)
(* the steps of another request on the same key, and the clock, can fall  *)
(* between them. The wrapper reads the cache and then the clock,           *)
(* check_rate_limit the clock and then the cache.                          *)
(***************************************************************************)
\* what the properties note of a cache.get that never happened
NoRead == [list |-> <<>>, slots |-> 0, admitted |-> <<>>]

\* a worker with no request in hand
RaceIdle == [pc |-> "idle", counter |-> [layer |-> "none", client |-> "", endpoint |-> ""],
             requests |-> <<>>, current_time |-> 0, before |-> <<>>, known |-> 0,
             rivals |-> <<>>, read |-> NoRead]

\* the history of a counter in SpecRace: for every admitted request, the time at which
\* it was admitted (at: the clock at its cache.set, after which the view is called) and
\* the timestamp the limiter stored for it (current_time: the clock as the request had
\* read it, which is older than `at` when the request stalled in between)
\* the admissions of a history whose stored timestamps lie within the window of a
\* request whose timestamp is t
TimestampsWithin(history, t, window) ==
    SelectSeq(history, LAMBDA a : t - a.current_time < window)

\* how many of the requests admitted to counter c bear a timestamp within the window
\* of a request whose timestamp is t
AdmittedWithin(c, t) == Len(TimestampsWithin(admitted[c], t, PolicyWindow(c.endpoint)))

\* how many requests to the counter were admitted within the window of a request made now
AdmittedInWindow(c) == AdmittedWithin(c, now)

\* the requests admitted to counter c during the window that ends at time t
AdmittedBy(c, t) ==
    SelectSeq(admitted[c], LAMBDA a : t - a.at < PolicyWindow(c.endpoint))

\* the history after a request with timestamp t was admitted to counter c now
AdmittedAt(c, t) == [admitted EXCEPT ![c] = Append(@, [at |-> now, current_time |-> t])]

\* what the properties note of a cache.get of counter c that returned `requests`: the
\* list as the key held it, the slots it left as of the read (the limit less its
\* entries that are less than a window old at the read), and the requests admitted to
\* the counter during the window that ends at the read
ReadOf(c, requests) ==
    [list |-> requests,
     slots |-> PolicyLimit(c.endpoint)
                  - Len(StillInWindow(requests, now, PolicyWindow(c.endpoint))),
     admitted |-> AdmittedBy(c, now)]

\* the wrapper has read the list of counter c with cache.get and not yet the clock
\*   requests: the list as the key held it
\*   before: the requests admitted to the counter before the read
\*   rivals: the requests that have written the key since the read, each given as the
\*           list it had read, pruned, its timestamp, and what was noted of its read
Got(c, requests) ==
    [pc |-> "got", counter |-> c, requests |-> requests, current_time |-> 0,
     before |-> admitted[c], known |-> 0, rivals |-> <<>>, read |-> ReadOf(c, requests)]

\* check_rate_limit has read the clock for a request on counter c and not yet the cache
Timed(c) ==
    [pc |-> "timed", counter |-> c, requests |-> <<>>, current_time |-> now,
     before |-> <<>>, known |-> 0, rivals |-> <<>>, read |-> NoRead]

\* the worker has the list of counter c and its timestamp, found room in the list, and
\* has not yet written
\*   requests, current_time: the pruned list and the timestamp of the request
\*   known: how many of the requests admitted before the cache.get bear a timestamp
\*          within the window of this request
\*   rivals: the requests that have written the key since the cache.get
\*   read: what was noted of the cache.get
Passed(c, requests, current_time, before, rivals, read) ==
    [pc |-> "passed", counter |-> c, requests |-> requests,
     current_time |-> current_time, before |-> <<>>,
     known |-> Len(TimestampsWithin(before, current_time, PolicyWindow(c.endpoint))),
     rivals |-> rivals, read |-> read]

\* what a response records about the request it answers: the list the request read,
\* pruned (requests), its length (seen) and the length of the list the key holds after
\* the request (stored), the timestamp of the request (current_time), how many
\* admitted requests bear a timestamp within the window of this request's timestamp,
\* itself included (in_window), what was noted of its cache.get (read), the time of
\* the answer (at), and how many requests were admitted during the window that ends
\* at the answer, itself included (admitted_now)
RaceAnswer(c, status, requests, known, rivals, stored, in_window, current_time, read) ==
    [layer |-> c.layer, client |-> c.client, endpoint |-> c.endpoint, status |-> status,
     requests |-> requests, seen |-> Len(requests), known |-> known, rivals |-> rivals,
     stored |-> stored, in_window |-> in_window, current_time |-> current_time,
     read |-> read, at |-> now,
     admitted_now |-> Len(AdmittedBy(c, now)) + (IF status = 200 THEN 1 ELSE 0)]

\* the workers after worker w wrote the key of its counter and returned
AfterWrite(w) ==
    [v \in DOMAIN work |->
        IF v = w
        THEN RaceIdle
        ELSE IF work[v].pc \in {"got", "passed"} /\ work[v].counter = work[w].counter
             THEN [work[v] EXCEPT !.rivals =
                        Append(@, [requests |-> work[w].requests,
                                   current_time |-> work[w].current_time,
                                   read |-> work[w].read])]
             ELSE work[v]]

\* rate_limit.wrapper from get_client_ip to cache.get
wrapper_get(w, view_func, client_ip) ==
    LET c == [layer |-> "decorator", client |-> client_ip,
              endpoint |-> ViewEndpoint(view_func)]
    IN  /\ work[w].pc = "idle"
        /\ nreq < MaxRequests
        /\ nreq' = nreq + 1
        /\ work' = [work EXCEPT ![w] =
                        Got(c, cache_get(decorator_cache_key(view_func, client_ip), <<>>))]
        /\ UNCHANGED <<now, cache, resp, admitted, wasFull, users, issued, successes,
                       lastReset, authvars>>

\* rate_limit.wrapper from timezone.now() to the limit check
wrapper_read(w) ==
    LET c == work[w].counter
        view_func == EndpointView(c.endpoint)
        current_requests == prune(work[w].requests, now, time_window(view_func))
        known == Len(TimestampsWithin(work[w].before, now, PolicyWindow(c.endpoint)))
    IN  /\ work[w].pc = "got"
        /\ IF limit_exceeded(current_requests, max_requests(view_func))
           THEN /\ resp' = RaceAnswer(c, 429, current_requests, known, work[w].rivals,
                                      Len(cache_get(CounterKey(c), <<>>)),
                                      AdmittedInWindow(c), now, work[w].read)
                /\ work' = [work EXCEPT ![w] = RaceIdle]
           ELSE /\ work' = [work EXCEPT ![w] =
                                Passed(c, current_requests, now, work[w].before,
                                       work[w].rivals, work[w].read)]
                /\ UNCHANGED resp
        /\ UNCHANGED <<now, cache, rlhist, users, issued, successes, lastReset, authvars>>

\* a wrapper that reads the list again and checks the limit again before it writes
wrapper_write_rechecking(w) ==
    LET c == work[w].counter
        fresh == wrapper_requests(EndpointView(c.endpoint), c.client)
    IN  /\ work[w].pc = "passed"
        /\ c.layer = "decorator"
        /\ IF limit_exceeded(fresh, max_requests(EndpointView(c.endpoint)))
           THEN /\ resp' = RaceAnswer(c, 429, work[w].requests, work[w].known,
                                      work[w].rivals, Len(fresh),
                                      AdmittedWithin(c, work[w].current_time),
                                      work[w].current_time, work[w].read)
                /\ UNCHANGED <<cache, admitted>>
           ELSE /\ cache' = cache_set(CounterKey(c), Append(fresh, work[w].current_time),
                                      decorator_timeout(EndpointView(c.endpoint)))
                /\ admitted' = AdmittedAt(c, work[w].current_time)
                /\ resp' = RaceAnswer(c, 200, work[w].requests, work[w].known,
                                      work[w].rivals, Len(fresh) + 1,
                                      AdmittedWithin(c, work[w].current_time) + 1,
                                      work[w].current_time, work[w].read)
        /\ work' = AfterWrite(w)
        /\ UNCHANGED <<now, wasFull, nreq, users, issued, successes, lastReset, authvars>>

\* a wrapper that adds its timestamp to the list the key holds at the write
wrapper_write_merging(w) ==
    LET c == work[w].counter
        current_requests == Append(cache_get(CounterKey(c), <<>>), work[w].current_time)
    IN  /\ work[w].pc = "passed"
        /\ c.layer = "decorator"
        /\ cache' = cache_set(CounterKey(c), current_requests,
                              decorator_timeout(EndpointView(c.endpoint)))
        /\ admitted' = AdmittedAt(c, work[w].current_time)
        /\ resp' = RaceAnswer(c, 200, work[w].requests, work[w].known,
                              work[w].rivals, Len(current_requests),
                              AdmittedWithin(c, work[w].current_time) + 1,
                              work[w].current_time, work[w].read)
        /\ work' = AfterWrite(w)
        /\ UNCHANGED <<now, wasFull, nreq, users, issued, successes, lastReset, authvars>>

\* rate_limit.wrapper from current_requests.append to the call of the view
wrapper_write(w) ==
    LET c == work[w].counter
        current_requests == Append(work[w].requests, work[w].current_time)
    IN  /\ work[w].pc = "passed"
        /\ c.layer = "decorator"
        /\ cache' = cache_set(CounterKey(c), current_requests,
                              decorator_timeout(EndpointView(c.endpoint)))
        /\ admitted' = AdmittedAt(c, work[w].current_time)
        /\ resp' = RaceAnswer(c, 200, work[w].requests, work[w].known,
                              work[w].rivals, Len(current_requests),
                              AdmittedWithin(c, work[w].current_time) + 1,
                              work[w].current_time, work[w].read)
        /\ work' = AfterWrite(w)
        /\ UNCHANGED <<now, wasFull, nreq, users, issued, successes, lastReset, authvars>>

\* RateLimitMiddleware.check_rate_limit: cache_key and current_time
check_rate_limit_now(w, client_ip, request_path) ==
    LET config == rate_limits[first_match(request_path)]
        c == [layer |-> "middleware", client |-> client_ip,
              endpoint |-> PathEndpoint(config.path)]
    IN  /\ work[w].pc = "idle"
        /\ matching(request_path) # {}
        /\ nreq < MaxRequests
        /\ nreq' = nreq + 1
        /\ work' = [work EXCEPT ![w] = Timed(c)]
        /\ UNCHANGED <<now, cache, resp, admitted, wasFull, users, issued, successes,
                       lastReset, authvars>>

\* RateLimitMiddleware.check_rate_limit from cache.get to the limit check, with the
\* current_time the request took before
check_rate_limit_read(w) ==
    LET c == work[w].counter
        config == rate_limits[first_match(EndpointPath(c.endpoint))]
        stored == cache_get(middleware_cache_key(c.client, config.path), <<>>)
        requests == check_rate_limit_prune(stored, work[w].current_time, config.window)
    IN  /\ work[w].pc = "timed"
        /\ IF check_rate_limit_exceeded(requests, config.limit)
           THEN /\ resp' = RaceAnswer(c, 429, requests,
                                      AdmittedWithin(c, work[w].current_time), <<>>,
                                      Len(stored),
                                      AdmittedWithin(c, work[w].current_time),
                                      work[w].current_time, ReadOf(c, stored))
                /\ work' = [work EXCEPT ![w] = RaceIdle]
           ELSE /\ work' = [work EXCEPT ![w] =
                                Passed(c, requests, work[w].current_time, admitted[c],
                                       <<>>, ReadOf(c, stored))]
                /\ UNCHANGED resp
        /\ UNCHANGED <<now, cache, rlhist, users, issued, successes, lastReset, authvars>>

\* a write that appends to the list as the key holds it now, not as the request read it
check_rate_limit_write_appending(w) ==
    LET c == work[w].counter
        requests == Append(cache_get(CounterKey(c), <<>>), work[w].current_time)
    IN  /\ work[w].pc = "passed"
        /\ c.layer = "middleware"
        /\ cache' = cache_set(CounterKey(c), requests,
                              rate_limits[first_match(EndpointPath(c.endpoint))].window)
        /\ admitted' = AdmittedAt(c, work[w].current_time)
        /\ resp' = RaceAnswer(c, 200, work[w].requests, work[w].known,
                              work[w].rivals, Len(requests),
                              AdmittedWithin(c, work[w].current_time) + 1,
                              work[w].current_time, work[w].read)
        /\ work' = AfterWrite(w)
        /\ UNCHANGED <<now, wasFull, nreq, users, issued, successes, lastReset, authvars>>

\* RateLimitMiddleware.check_rate_limit from requests.append to get_response
check_rate_limit_write(w) ==
    LET c == work[w].counter
        requests == Append(work[w].requests, work[w].current_time)
    IN  /\ work[w].pc = "passed"
        /\ c.layer = "middleware"
        /\ cache' = cache_set(CounterKey(c), requests,
                              rate_limits[first_match(EndpointPath(c.endpoint))].window)
        /\ admitted' = AdmittedAt(c, work[w].current_time)
        /\ resp' = RaceAnswer(c, 200, work[w].requests, work[w].known,
                              work[w].rivals, Len(requests),
                              AdmittedWithin(c, work[w].current_time) + 1,
                              work[w].current_time, work[w].read)
        /\ work' = AfterWrite(w)
        /\ UNCHANGED <<now, wasFull, nreq, users, issued, successes, lastReset, authvars>>

\* the clock moves by one window, whatever the requests are doing
RaceTickSteps == {REGISTER_TIME_WINDOW}

RaceTick(d) ==
    /\ now + d <= MaxTime
    /\ now' = now + d
    /\ UNCHANGED <<cache, resp, rlhist, resetvars, authvars>>

InitRace ==
    /\ now = 0
    /\ cache = <<>>
    /\ resp = NoResponse
    /\ admitted = [c \in Counters |-> <<>>]
    /\ wasFull = [c \in Counters |-> FALSE]
    /\ nreq = 0
    /\ users = <<>>
    /\ work = [w \in Workers |-> RaceIdle]
    /\ issued = <<>>
    /\ successes = <<>>
    /\ lastReset = <<>>
    /\ pairs = <<>>
    /\ blacklist = {}
    /\ revoked = {}

NextRace ==
    \/ \E d \in RaceTickSteps : RaceTick(d)
    \/ \E w \in Workers, ip \in RLClients : wrapper_get(w, "register_user", ip)
    \/ \E w \in Workers : wrapper_read(w)
    \/ \E w \in Workers : wrapper_write(w)
    \/ \E w \in Workers, ip \in RLClients : check_rate_limit_now(w, ip, REGISTER_PATH)
    \/ \E w \in Workers : check_rate_limit_read(w)
    \/ \E w \in Workers : check_rate_limit_write(w)

SpecRace == InitRace /\ [][NextRace]_vars

\* the timestamp of the other request lies within the window of the request answered
RivalInWindow ==
    resp.current_time - resp.rivals[1].current_time < PolicyWindow(resp.endpoint)

\* the request answered went through rate_limit.wrapper and read its counter with
\* exactly one slot left, every request admitted during the window before the read
\* being in the list it read, and one other request, which had read the same list
\* with one slot left, wrote the key between this request's read and its write
RacedForLastSlot ==
    /\ Limited(resp)
    /\ resp.layer = "decorator"
    /\ resp.read.slots = 1
    /\ Len(resp.read.admitted) = PolicyLimit(resp.endpoint) - 1
    /\ Len(resp.rivals) = 1
    /\ resp.rivals[1].read.list = resp.read.list
    /\ resp.rivals[1].read.slots = 1

\* C28: when two requests of a client to an endpoint both read the counter with one
\* slot left before either writes it, both are admitted, and the requests admitted
\* within the window that ends when the later of the two is admitted are one more
\* than the limit
C28_RaceAdmitsOneOver ==
    RacedForLastSlot
        => /\ resp.status = 200
           /\ resp.admitted_now = PolicyLimit(resp.endpoint) + 1

\* the later request is admitted less than a window after the oldest of the requests
\* that filled the counter at its read
RaceWithinWindow ==
    resp.at - resp.read.admitted[1].at < PolicyWindow(resp.endpoint)

\* C28, amended: both are admitted, whatever time passes between the steps of either;
\* the requests admitted within the window that ends when the later of the two is
\* admitted are one more than the limit when that window still holds the requests
\* that filled the counter at the read, and never more than that
C28_RaceAdmitsOneOverWithinWindow ==
    RacedForLastSlot
        => /\ resp.status = 200
           /\ RaceWithinWindow => resp.admitted_now = PolicyLimit(resp.endpoint) + 1
           /\ resp.admitted_now \in 1..(PolicyLimit(resp.endpoint) + 1)

\* two register requests read [0, 0] at 0, and the later of them was admitted as the
\* fourth request of the window
C28_Witness ==
    /\ RacedForLastSlot
    /\ RaceWithinWindow
    /\ resp.status = 200
    /\ resp.admitted_now = REGISTER_MAX_REQUESTS + 1
    /\ resp.stored = REGISTER_MAX_REQUESTS

\* C30: in every state, whatever the interleaving of the requests on a key, the list
\* stored under a rate-limit key is no longer than the limit of its endpoint
C30_StoredListWithinLimit ==
    \A c \in KeptCounters :
        CounterKey(c) \in DOMAIN cache
            => Len(cache[CounterKey(c)].value) <= PolicyLimit(c.endpoint)

\* more requests were admitted within the window than the limit allows, and the list
\* under the key has just been written with `limit` entries
C30_Witness ==
    /\ Limited(resp)
    /\ resp.status = 200
    /\ resp.in_window > PolicyLimit(resp.endpoint)
    /\ resp.stored = PolicyLimit(resp.endpoint)
    /\ Len(cache[CounterKey([layer |-> resp.layer, client |-> resp.client,
                              endpoint |-> resp.endpoint])].value)
            = PolicyLimit(resp.endpoint)


(***************************************************************************)
(* The sliding window when requests are handled one at a time.             *)
(***************************************************************************)
\* the admissions of a counter whose timestamps lie in the trailing window that ends
\* at time t: the timestamps x with t - x < window
InTrailingWindow(c, t) == StillInWindow(admitted[c], t, PolicyWindow(c.endpoint))

\* C29: when the requests of a counter are handled one at a time, at every instant the
\* number of admitted requests whose timestamps lie in the trailing window (now - t <
\* window) is at most the limit, for both layers, whatever the requests and their times
C29_SequentialWindowBound ==
    \A c \in Counters : Len(InTrailingWindow(c, now)) <= PolicyLimit(c.endpoint)

\* the window has slid: the counter is full again, its oldest admission in the window is
\* not the first one, and the request just answered was rejected
C29_Witness ==
    /\ Limited(resp)
    /\ resp.status = 429
    /\ LET c == [layer |-> resp.layer, client |-> resp.client, endpoint |-> resp.endpoint]
       IN  /\ Len(InTrailingWindow(c, now)) = PolicyLimit(c.endpoint)
           /\ Head(InTrailingWindow(c, now)) > 0
           /\ Head(InTrailingWindow(c, now)) < now


(***************************************************************************)
(* What a rejected request leaves alone.                                   *)
(***************************************************************************)
\* a request was answered 429 by one of the two layers
RejectedStep == nreq' = nreq + 1 /\ resp'.status = 429

\* C31: a rejected request writes nothing to the cache: every key keeps its stored
\* timestamp list and its expiry time, so rejections do not postpone the moment at
\* which the key expires or its timestamps leave the window
C31_RejectionWritesNothing == [][RejectedStep => cache' = cache]_vars

\* a request was rejected some time after the last write of its counter: a write now
\* would have moved the expiry of the key
C31_Witness ==
    /\ Limited(resp)
    /\ resp.status = 429
    /\ LET key == CounterKey([layer |-> resp.layer, client |-> resp.client,
                              endpoint |-> resp.endpoint])
       IN  /\ key \in DOMAIN cache
           /\ now < cache[key].expires
           /\ cache[key].expires < now + PolicyWindow(resp.endpoint)


(***************************************************************************)
(* The lost update of two overlapping admitted requests.                   *)
(***************************************************************************)
\* the request just answered was admitted, and one other request wrote the key of its
\* counter between this request's read and its write: both had read before either wrote
WroteLast ==
    /\ Limited(resp)
    /\ resp.status = 200
    /\ Len(resp.rivals) = 1

\* the list under the key of the counter of the request just answered
StoredNow == cache[CounterKey([layer |-> resp.layer, client |-> resp.client,
                              endpoint |-> resp.endpoint])].value

\* C32: when two admitted requests on a key both read the counter before either wrote
\* it, the list stored after both have finished is the list the last writer read plus
\* one timestamp, its own: the other request's timestamp is not in it, and the stored
\* count is lower than the number of requests admitted within the window
C32_LastWriterWins ==
    WroteLast
        => /\ Len(StoredNow) = resp.seen + 1
           /\ Len(StoredNow) < resp.in_window

\* C32, amended: the list stored after both have finished is the list the last writer
\* read plus one timestamp, its own, which is the last of the list; when the other
\* request's timestamp lies within the window of the last writer's, the stored count is
\* lower than the number of requests admitted within that window
C32_LastWriterWinsWithinWindow ==
    WroteLast
        => /\ Len(StoredNow) = resp.seen + 1
           /\ StoredNow[Len(StoredNow)] = resp.current_time
           /\ RivalInWindow => Len(StoredNow) < resp.in_window

\* both requests had read the same list, in which no admitted request was missing, and
\* the stored list is one short of the requests admitted within the window
C32_Witness ==
    /\ WroteLast
    /\ resp.layer = "decorator"
    /\ resp.rivals[1].requests = resp.requests
    /\ RivalInWindow
    /\ resp.known = resp.seen
    /\ Len(StoredNow) = resp.seen + 1
    /\ resp.in_window = resp.seen + 2


(***************************************************************************)
(* The decorated views answering 429: views.register_user,                 *)
(* views.login_user and views.request_password_reset behind rate_limit.    *)
(***************************************************************************)
\* a wrapper that calls the view before it answers 429
request_password_reset_invoked_anyway(client_ip, email) ==
    /\ IF wrapper_rejects("request_password_reset", client_ip)
       THEN /\ resp' = TooManyRequests("request_password_reset")
            /\ IF forgot_errors(email) # {} \/ users_with_email(lower_email(email)) = {}
               THEN UNCHANGED <<cache, issued, successes>>
               ELSE LET user_id == CHOOSE i \in users_with_email(lower_email(email)) : TRUE
                        token == generate_reset_token
                    IN  /\ Len(issued) < MaxTokens
                        /\ cache' = cache_set(reset_cache_key(token),
                                              [email |-> lower_email(email),
                                               user_id |-> user_id, created_at |-> now],
                                              reset_token_timeout)
                        /\ issued' = Append(issued, [email |-> lower_email(email),
                                                     user_id |-> user_id, created_at |-> now,
                                                     at |-> now, sent |-> TRUE, raised |-> FALSE])
                        /\ successes' = Append(successes, 0)
       ELSE IF forgot_errors(email) # {}
            THEN /\ resp' = AuthResponse("request_password_reset", 400,
                                         "Invalid email address", NoUser, NoTokens, NoEmail)
                 /\ cache' = wrapper_records("request_password_reset", client_ip)
                 /\ UNCHANGED <<issued, successes>>
            ELSE IF users_with_email(lower_email(email)) = {}
                 THEN /\ resp' = AuthResponse("request_password_reset", 400,
                                              "Failed to generate reset token", NoUser,
                                              NoTokens, NoEmail)
                      /\ cache' = wrapper_records("request_password_reset", client_ip)
                      /\ UNCHANGED <<issued, successes>>
                 ELSE LET user_id == CHOOSE i \in users_with_email(lower_email(email)) :
                                         TRUE
                          token == generate_reset_token
                      IN  /\ Len(issued) < MaxTokens
                          /\ cache' = cache_put(
                                 wrapper_records("request_password_reset", client_ip),
                                 reset_cache_key(token),
                                 [email |-> lower_email(email), user_id |-> user_id,
                                  created_at |-> now],
                                 reset_token_timeout)
                          /\ issued' = Append(issued, [email |-> lower_email(email),
                                                       user_id |-> user_id, created_at |-> now,
                                                       at |-> now, sent |-> TRUE, raised |-> FALSE])
                          /\ successes' = Append(successes, 0)
                          /\ resp' = AuthResponse("request_password_reset", 200,
                                        "Password reset token sent to your email",
                                        NoUser, NoTokens, lower_email(email))
    /\ UNCHANGED <<now, rlhist, users, work, lastReset, authvars>>

\* views.request_password_reset under @rate_limit(max_requests=3, time_window=600)
request_password_reset(client_ip, email) ==
    /\ IF wrapper_rejects("request_password_reset", client_ip)
       THEN /\ resp' = TooManyRequests("request_password_reset")
            /\ UNCHANGED <<cache, issued, successes>>
       ELSE IF forgot_errors(email) # {}
            THEN /\ resp' = AuthResponse("request_password_reset", 400,
                                         "Invalid email address", NoUser, NoTokens, NoEmail)
                 /\ cache' = wrapper_records("request_password_reset", client_ip)
                 /\ UNCHANGED <<issued, successes>>
            ELSE IF users_with_email(lower_email(email)) = {}
                 THEN \* create_password_reset_token: User.DoesNotExist, return None
                      /\ resp' = AuthResponse("request_password_reset", 400,
                                              "Failed to generate reset token", NoUser,
                                              NoTokens, NoEmail)
                      /\ cache' = wrapper_records("request_password_reset", client_ip)
                      /\ UNCHANGED <<issued, successes>>
                 ELSE LET user_id == CHOOSE i \in users_with_email(lower_email(email)) :
                                         TRUE
                          token == generate_reset_token
                      IN  /\ Len(issued) < MaxTokens
                          /\ cache' = cache_put(
                                 wrapper_records("request_password_reset", client_ip),
                                 reset_cache_key(token),
                                 [email |-> lower_email(email), user_id |-> user_id,
                                  created_at |-> now],
                                 reset_token_timeout)
                          /\ issued' = Append(issued, [email |-> lower_email(email),
                                                       user_id |-> user_id, created_at |-> now,
                                                       at |-> now, sent |-> TRUE, raised |-> FALSE])
                          /\ successes' = Append(successes, 0)
                          /\ resp' = AuthResponse("request_password_reset", 200,
                                        "Password reset token sent to your email",
                                        NoUser, NoTokens, lower_email(email))
    /\ UNCHANGED <<now, rlhist, users, work, lastReset, authvars>>

\* the requests: a registration of a new email with a valid password,
\* logins of a stored user with the right and a wrong password, and forgot-password
\* requests for a stored user's email and for an email nobody has
ThrottleRegisterEmails == {<<"new.user", "example.com">>}

ThrottleLoginEmails == {<<"john.doe", "example.com">>}

ThrottleForgotEmails == {<<"john.doe", "example.com">>, <<"nonexistent", "example.com">>}

ThrottleRegisterBodies == {<<"Str0ngPassw!", "Str0ngPassw!">>}

NextThrottle ==
    \/ \E d \in KeyTickSteps : Tick(d)
    \/ \E ip \in AuthClients, e \in ThrottleRegisterEmails, b \in ThrottleRegisterBodies :
            register_user(ip, e, <<78, 101, 119, 32, 85, 115, 101, 114>>,  \* "New User"
                          b[1], b[2])
    \/ \E ip \in AuthClients, e \in ThrottleLoginEmails, p \in GatePasswords :
            login_user(ip, e, p)
    \/ \E ip \in AuthClients, e \in ThrottleForgotEmails : request_password_reset(ip, e)

SpecThrottle == InitLogin /\ [][NextThrottle]_vars

\* the reset tokens a cache holds, each with its data and its expiry
StoredResetTokens(c) ==
    [t \in {u \in AllTokens : reset_cache_key(u) \in DOMAIN c} |-> c[reset_cache_key(t)]]

\* a decorated view answered a request with 429
ThrottledStep == now' = now /\ resp'.status = 429

\* C33: when register, login or forgot-password answers 429 the view was not invoked:
\* the users, the stored reset tokens, the reset tokens issued and the token pairs
\* issued are the same after the request as before it
C33_RejectedRequestSkipsView ==
    [][ThrottledStep
        => /\ users' = users
           /\ StoredResetTokens(cache') = StoredResetTokens(cache)
           /\ issued' = issued
           /\ pairs' = pairs]_vars

\* forgot-password answered 429 while a reset token could still be issued and a third
\* user could still register or a user log in: the view, had it run, could have
\* changed the state
C33_Witness ==
    /\ resp.op = "request_password_reset"
    /\ resp.status = 429
    /\ Len(issued) < MaxTokens
    /\ Len(pairs) < MaxPairs

\* register and login have answered 429 as well
RegisterThrottled == resp.op = "register_user" /\ resp.status = 429 /\ Len(pairs) < MaxPairs

LoginThrottled == resp.op = "login_user" /\ resp.status = 429 /\ Len(pairs) < MaxPairs


(***************************************************************************)
(* Reset-password requests the serializer refuses.                         *)
(***************************************************************************)
\* views.reset_password answered a request whose passwords differ or are too weak
RefusedResetStep ==
    /\ now' = now
    /\ work' = work
    /\ resp'.op = "reset_password"
    /\ ~resp'.valid

\* C34: a reset-password request whose passwords differ, or whose password fails the
\* strength check, is answered 400 and touches neither the cache nor the users: the
\* token it presented is stored and usable afterwards if it was before, and no
\* password has changed
C34_RefusedResetKeepsToken ==
    [][RefusedResetStep
        => /\ resp'.status = 400
           /\ cache' = cache
           /\ users' = users
           /\ \A t \in AllTokens :
                (resp'.token = t /\ ResetCanSucceed(t)) => ResetCanSucceed(t)']_vars

\* a request with an issued, unexpired, unused token was refused for its passwords, and
\* the token can still be used for a reset
C34_Witness ==
    /\ resp.op = "reset_password"
    /\ ~resp.valid
    /\ resp.status = 400
    /\ resp.token \in DOMAIN issued
    /\ ResetCanSucceed(resp.token)
    /\ \A w \in Workers : work[w].pc = "idle"


(***************************************************************************)
(* Several reset tokens of one user.                                       *)
(***************************************************************************)
\* the emails tokens are asked for, and the bodies of the reset requests
TokensEmails == {<<"john.doe", "example.com">>, <<"jane.smith", "example.com">>}

TokensBodies == {<<"newpassword456", "newpassword456">>}

NextTokens ==
    \/ \E d \in ResetTickSteps : Elapse(d)
    \/ \E w \in IssueWorkers, e \in TokensEmails, send_raises \in BOOLEAN :
            create_password_reset_token(w, e, send_raises, MaxUserTokens)
    \/ \E w \in IssueWorkers : create_password_reset_token_now(w)
    \/ \E w \in IssueWorkers : create_password_reset_token_set(w)
    \/ \E w \in IssueWorkers : create_password_reset_token_send(w)
    \/ \E w \in DeliveryWorkers, t \in PresentedTokens, b \in TokensBodies :
            reset_password_begin(w, t, b[1], b[2])
    \/ \E w \in DeliveryWorkers : reset_password_get(w)
    \/ \E w \in DeliveryWorkers : reset_password_save(w)
    \/ \E w \in DeliveryWorkers : reset_password_finish(w)

SpecTokens == InitReset /\ [][NextTokens]_vars

\* C35: reset tokens are independent of one another: every token that was issued, has
\* not been used for a reset and has not expired is stored under its own key with the
\* email it was issued for and can be used for a reset, whatever tokens were issued
\* for the same user after it and whichever of the user's other tokens were used
C35_TokensIndependent ==
    \A t \in DOMAIN issued :
        (successes[t] = 0 /\ now < issued[t].at + TOKEN_EXPIRY_SECONDS)
            => /\ reset_cache_key(t) \in DOMAIN cache
               /\ cache[reset_cache_key(t)].value.email = issued[t].email
               /\ ResetCanSucceed(t)

\* two tokens were issued for one user, a reset succeeded with one of them, and the
\* other, unexpired, is still stored and usable while the used one is gone
C35_Witness ==
    \E t, u \in DOMAIN issued :
        /\ t # u
        /\ issued[t].email = issued[u].email
        /\ successes[t] = 1
        /\ reset_cache_key(t) \notin DOMAIN cache
        /\ successes[u] = 0
        /\ now < issued[u].at + TOKEN_EXPIRY_SECONDS
        /\ ResetCanSucceed(u)
        /\ \A w \in Workers : work[w].pc = "idle"


(***************************************************************************)
(* Logout without a refresh token.                                         *)
(***************************************************************************)
\* the refresh tokens of the issued pairs that RefreshToken(...) would accept
UsableRefreshTokens == {k \in DOMAIN pairs : ~TokenError(pairs[k].refresh)}

\* C37: an authenticated logout whose body has no refresh_token, or an empty one, is
\* answered with the success response and leaves the blacklist as it was: every
\* refresh token that could be used before the logout can be used after it
C37_LogoutWithoutTokenRevokesNothing ==
    [][(LogoutStep /\ resp'.refresh_token \in {NoJWT, EmptyJWT})
            => /\ resp'.status = 200
               /\ resp'.message = "Logout successful"
               /\ blacklist' = blacklist
               /\ UsableRefreshTokens' = UsableRefreshTokens]_vars

\* a logout with an empty refresh_token has succeeded while a refresh token could be
\* used, and it still can
C37_Witness ==
    /\ resp.op = "logout_user"
    /\ resp.status = 200
    /\ resp.at = now
    /\ resp.refresh_token = EmptyJWT
    /\ UsableRefreshTokens # {}


(***************************************************************************)
(* The two rate limiters side by side: every request is given to           *)
(* rate_limit.wrapper and to RateLimitMiddleware.check_rate_limit with the *)
(* limit and the window of the decorated view, each under its own key.     *)
(***************************************************************************)
\* the path check_rate_limit is called with for a view
ViewPath(view_func) == EndpointPath(ViewEndpoint(view_func))

\* what the two limiters decided about one request: 429 or 200 each
PairAnswer(view_func, client_ip, decorator_status, middleware_status) ==
    [layer |-> "pair", view |-> view_func, client |-> client_ip,
     decorator |-> decorator_status, middleware |-> middleware_status, at |-> now]

paired_request(view_func, client_ip) ==
    LET limit == max_requests(view_func)
        window == time_window(view_func)
        rejected_by_wrapper == wrapper_rejects(view_func, client_ip)
        rejected_by_middleware ==
            check_rate_limit(client_ip, ViewPath(view_func), limit, window)
        after_wrapper ==
            IF rejected_by_wrapper THEN cache ELSE wrapper_records(view_func, client_ip)
        after_both ==
            IF rejected_by_middleware
            THEN after_wrapper
            ELSE cache_put(after_wrapper,
                           middleware_cache_key(client_ip, ViewPath(view_func)),
                           Append(check_rate_limit_requests(client_ip, ViewPath(view_func),
                                                            window), now),
                           window)
    IN  /\ nreq < MaxRequests
        /\ nreq' = nreq + 1
        /\ cache' = after_both
        /\ resp' = PairAnswer(view_func, client_ip,
                              IF rejected_by_wrapper THEN 429 ELSE 200,
                              IF rejected_by_middleware THEN 429 ELSE 200)
        /\ UNCHANGED <<now, admitted, wasFull, resetvars, authvars>>

NextPair ==
    \/ \E d \in RLTickSteps : Tick(d)
    \/ \E v \in DecoratedViews, ip \in RLClients : paired_request(v, ip)

SpecPair == InitRL /\ [][NextPair]_vars

\* the decorator's key of a view and the middleware's key of its path hold the same
\* entry (list and expiry), or neither is there
PairedEntries(view_func, client_ip) ==
    LET dkey == decorator_cache_key(view_func, client_ip)
        mkey == middleware_cache_key(client_ip, ViewPath(view_func))
    IN  /\ dkey \in DOMAIN cache <=> mkey \in DOMAIN cache
        /\ dkey \in DOMAIN cache => cache[dkey] = cache[mkey]

\* C38: given the same limit, window and request times of a client, the decorator and
\* check_rate_limit decide alike on every request and hold the same list after it
C38_LimitersAgree ==
    /\ resp.layer = "pair" => resp.decorator = resp.middleware
    /\ \A v \in DecoratedViews, ip \in RLClients : PairedEntries(v, ip)

\* both limiters admitted a request into the last slot after an older request had left
\* the window: their lists are full, equal, and hold requests made at different times
C38_Witness ==
    /\ resp.layer = "pair"
    /\ resp.decorator = 200
    /\ resp.middleware = 200
    /\ LET dkey == decorator_cache_key(resp.view, resp.client)
           mkey == middleware_cache_key(resp.client, ViewPath(resp.view))
       IN  /\ dkey \in DOMAIN cache
           /\ cache[dkey] = cache[mkey]
           /\ Len(cache[dkey].value) = max_requests(resp.view)
           /\ Head(cache[dkey].value) > 0
           /\ Head(cache[dkey].value) < now
           /\ cache[dkey].value[Len(cache[dkey].value)] = now

====
